---- MODULE Spec2Model ----
(***************************************************************************)
(* The floorplan store (src/src/store/floorplan-store.ts): a zustand store *)
(* whose state is the history triple (past, present, future) and whose     *)
(* actions are the store's commands.  Every command body runs inside an    *)
(* immer producer: `state` and everything read from it are drafts, and     *)
(* the producer's result is what immer's finalisation makes of them.       *)
(***************************************************************************)
EXTENDS Integers, Sequences, FiniteSets, TLC

\* ------------------------------------------------------------------ bounds

\* Operations performed in one behaviour of Spec.
MaxSteps == 2
\* Identifiers generateId hands out in one behaviour.
MaxIds == 9
\* Size of the id list given to removeSelected.
MaxSel == 2
\* Pointer and toolbar events in one behaviour of SpecCanvas.
MaxEvents == 4
\* Raw pointer coordinates given to snapToGridPoint lie in -MaxCoord..MaxCoord.
MaxCoord == 65
\* Calls of generateFloorplanContext in one behaviour of SpecContext.
MaxCalls == 2

\* --------------------------------------------------------- program constants

MAX_HISTORY == 50

wallThickness == 6
doorWidth == 32
windowWidth == 36
windowHeight == 48
gridSize == 12
snapIncrement == 6
scale == 10
\* handleMouseUp: `if (length > 10)`.
minLength == 10

VARIABLES
    past,       \* HistoryState.past: Floorplan[]
    present,    \* HistoryState.present: Floorplan
    future,     \* HistoryState.future: Floorplan[]
    nextId,     \* the next identifier generateId returns
    op,         \* the store operation performed last: [name, id, ids, updates]
    prev,       \* the history triple as it was when that operation was called
    steps,      \* operations performed so far
    fullContent,  \* handleSubmit: the text of the response read so far
    toolCalls,    \* handleSubmit: assistantMessage.toolCalls
    ran,          \* the invocations the last turn of the loop went through
    session,      \* the store and next id the response began on, and whether
                  \* the store was called from outside the loop since
    activeTool,      \* ui-store: the active tool
    snapToGrid,      \* ui-store: snap-to-grid setting
    isDrawing,       \* FloorplanCanvas: useState(false)
    drawStartRef,    \* FloorplanCanvas: <<>> for null, <<point>> otherwise
    previewLineRef,  \* FloorplanCanvas: <<>> for null, <<line>> otherwise
    previews,        \* the preview lines on the fabric canvas
    cursor,          \* the canvas' defaultCursor, hoverCursor and selection
    ev,              \* the event handled last: [kind, point, snapped, before, calls]
    gesture,         \* presses that began a gesture, the one drawStartRef
                     \* belongs to, and the cancelled ones
    contexts,        \* the calls of generateFloorplanContext so far:
                     \* [at, floorplan, after, lines]
    chat             \* ChatPanel: inputValue, messages, isLoading, error, the
                     \* calls of handleSubmit that have not returned yet
                     \* and the number of submissions accepted so far

canvasVars == <<activeTool, snapToGrid, isDrawing, drawStartRef,
                previewLineRef, previews, cursor, ev, gesture>>

vars == <<past, present, future, nextId, op, prev, steps,
          fullContent, toolCalls, ran, session,
          activeTool, snapToGrid, isDrawing, drawStartRef,
          previewLineRef, previews, cursor, ev, gesture, contexts, chat>>

\* ------------------------------------------------------------------ helpers

\* slice(0, n): keeps the oldest n entries.
SliceLast_keepsOldest(s, n) ==
    IF Len(s) <= n THEN s ELSE SubSeq(s, 1, n)

\* Array.prototype.slice(-n)
SliceLast(s, n) ==
    IF Len(s) <= n THEN s ELSE SubSeq(s, Len(s) - n + 1, Len(s))

\* list.find(e => e.id === id) !== undefined
HasId(s, id) == \E i \in 1..Len(s) : s[i].id = id

\* Object.assign(target, updates): the fields of updates overwrite target's
Assign(target, updates) ==
    [k \in (DOMAIN target) \cup (DOMAIN updates) |->
        IF k \in DOMAIN updates THEN updates[k] ELSE target[k]]

\* A patch applied to every element of the list, whatever its id.
Patch_everyElement(s, id, updates) ==
    [i \in 1..Len(s) |-> Assign(s[i], updates)]

\* const e = list.find(e => e.id === id); if (e) Object.assign(e, updates)
\* (find returns the first match)
Patch(s, id, updates) ==
    [i \in 1..Len(s) |->
        IF s[i].id = id /\ ~HasId(SubSeq(s, 1, i - 1), id)
        THEN Assign(s[i], updates) ELSE s[i]]

Point(x, y) == [x |-> x, y |-> y]

\* ---------------------------------------------------------------- documents

createEmptyFloorplan(id) ==
    [id |-> id, name |-> "Untitled Floorplan", units |-> "imperial",
     scale |-> scale, gridSize |-> gridSize,
     walls |-> <<>>, doors |-> <<>>, windows |-> <<>>, rooms |-> <<>>,
     furniture |-> <<>>, backgroundImage |-> "undefined"]

\* ---------------------------------------------------------- immer producer

\* Inside a producer, state.present is the draft of the present document and
\* state.past[i] the draft of a past entry.  A value of the producer's state
\* is either a draft (ref names its base) or a plain value.
PresentDraft(d) == [ref |-> "present", base |-> d]
EntryDraft(d) == [ref |-> "entry", base |-> d]

\* immer's finalize: a draft that was modified becomes its modified copy,
\* an unmodified draft its base.  Only the draft of state.present is ever
\* written to by the store's commands; copy is its content at the end of
\* the producer.
finalize(v, copy) == IF v.ref = "present" THEN copy ELSE v.base

\* pushToHistory that leaves the redo stack in place.
pushToHistory_keepsFuture(state) ==
    LET drafts == [i \in 1..Len(state.past) |-> EntryDraft(state.past[i])]
        newPast == SliceLast(Append(drafts, PresentDraft(state.present)), MAX_HISTORY)
    IN  [past |-> newPast, present |-> PresentDraft(state.present),
         future |-> state.future]

pushToHistory(state) ==
    LET drafts == [i \in 1..Len(state.past) |-> EntryDraft(state.past[i])]
        newPast == SliceLast(Append(drafts, PresentDraft(state.present)), MAX_HISTORY)
    IN  [past |-> newPast, present |-> PresentDraft(state.present), future |-> <<>>]

\* Object.assign(state, pushToHistory(state)); <writes to state.present's draft>
\* doc is the content of the present's draft when the producer returns.
Mutate(state, doc) ==
    LET h == pushToHistory(state)
    IN  [past |-> [i \in 1..Len(h.past) |-> finalize(h.past[i], doc)],
         present |-> finalize(h.present, doc),
         future |-> h.future]

\* Object.assign(state, pushToHistory(state)); state.present = doc
\* the present's draft is left unmodified and finalises to its base.
Replace(state, doc) ==
    LET h == pushToHistory(state)
    IN  [past |-> [i \in 1..Len(h.past) |-> finalize(h.past[i], state.present)],
         present |-> doc,
         future |-> h.future]

\* ------------------------------------------------------------ store commands

\* undo that loses the document it leaves: the present is not put on future.
undo_forgetsPresent(state) ==
    IF Len(state.past) = 0 THEN state
    ELSE [past |-> SubSeq(state.past, 1, Len(state.past) - 1),
          future |-> state.future,
          present |-> state.past[Len(state.past)]]

\* undo that puts the document it leaves at the end of future.
undo_appendsFuture(state) ==
    IF Len(state.past) = 0 THEN state
    ELSE [past |-> SubSeq(state.past, 1, Len(state.past) - 1),
          future |-> Append(state.future, state.present),
          present |-> state.past[Len(state.past)]]

undo(state) ==
    IF Len(state.past) = 0 THEN state
    ELSE LET previous == state.past[Len(state.past)]
         IN  [past |-> SubSeq(state.past, 1, Len(state.past) - 1),
              future |-> <<state.present>> \o state.future,
              present |-> previous]

\* redo whose guard is off by one: a single redoable step is ignored.
redo_guardOffByOne(state) ==
    IF Len(state.future) <= 1 THEN state
    ELSE [past |-> Append(state.past, state.present),
          future |-> Tail(state.future),
          present |-> state.future[1]]

\* redo that leaves the document it brings back on future.
redo_keepsFuture(state) ==
    IF Len(state.future) = 0 THEN state
    ELSE [past |-> Append(state.past, state.present),
          future |-> state.future,
          present |-> state.future[1]]

redo(state) ==
    IF Len(state.future) = 0 THEN state
    ELSE LET next == state.future[1]
         IN  [past |-> Append(state.past, state.present),
              future |-> Tail(state.future),
              present |-> next]

canUndo(state) == Len(state.past) > 0
canRedo(state) == Len(state.future) > 0

setFloorplan(state, floorplan) == Replace(state, floorplan)

resetFloorplan(state, id) == Replace(state, createEmptyFloorplan(id))

setName(state, name) ==
    [state EXCEPT !.present = [@ EXCEPT !.name = name]]

setUnits(state, units) ==
    Mutate(state, [state.present EXCEPT !.units = units])

setBackgroundImage(state, imageData) ==
    Mutate(state, [state.present EXCEPT !.backgroundImage = imageData])

addWall(state, id, start, end, thickness) ==
    Mutate(state, [state.present EXCEPT !.walls =
        Append(@, [id |-> id, start |-> start, end |-> end, thickness |-> thickness])])

updateWall(state, id, updates) ==
    Mutate(state, [state.present EXCEPT !.walls = Patch(@, id, updates)])

\* removeWall that forgets the windows of the wall.
removeWall_keepsWindows(state, id) ==
    LET NotId(w) == w.id # id
        NotOn(d) == d.wallId # id
    IN  Mutate(state, [state.present EXCEPT
            !.walls = SelectSeq(@, NotId),
            !.doors = SelectSeq(@, NotOn)])

\* A mutant of removeWall: the wall is also taken off the rooms' wallIds.
removeWall_cleansRooms(state, id) ==
    LET NotId(w) == w.id # id
        NotOn(d) == d.wallId # id
        NotWall(w) == w # id
    IN  Mutate(state, [state.present EXCEPT
            !.walls = SelectSeq(@, NotId),
            !.doors = SelectSeq(@, NotOn),
            !.windows = SelectSeq(@, NotOn),
            !.rooms = [i \in 1..Len(@) |->
                          [@[i] EXCEPT !.wallIds = SelectSeq(@, NotWall)]]])

removeWall(state, id) ==
    LET NotId(w) == w.id # id
        NotOn(d) == d.wallId # id
    IN  Mutate(state, [state.present EXCEPT
            !.walls = SelectSeq(@, NotId),
            !.doors = SelectSeq(@, NotOn),
            !.windows = SelectSeq(@, NotOn)])

addDoor(state, id, wallId, position, width) ==
    Mutate(state, [state.present EXCEPT !.doors =
        Append(@, [id |-> id, wallId |-> wallId, position |-> position,
                   width |-> width, swingDirection |-> "left", swingInward |-> TRUE])])

updateDoor(state, id, updates) ==
    Mutate(state, [state.present EXCEPT !.doors = Patch(@, id, updates)])

removeDoor(state, id) ==
    LET NotId(d) == d.id # id
    IN  Mutate(state, [state.present EXCEPT !.doors = SelectSeq(@, NotId)])

addWindow(state, id, wallId, position, width, height) ==
    Mutate(state, [state.present EXCEPT !.windows =
        Append(@, [id |-> id, wallId |-> wallId, position |-> position,
                   width |-> width, height |-> height])])

updateWindow(state, id, updates) ==
    Mutate(state, [state.present EXCEPT !.windows = Patch(@, id, updates)])

removeWindow(state, id) ==
    LET NotId(w) == w.id # id
    IN  Mutate(state, [state.present EXCEPT !.windows = SelectSeq(@, NotId)])

addRoom(state, id, name, type, wallIds) ==
    Mutate(state, [state.present EXCEPT !.rooms =
        Append(@, [id |-> id, name |-> name, type |-> type, wallIds |-> wallIds])])

updateRoom(state, id, updates) ==
    Mutate(state, [state.present EXCEPT !.rooms = Patch(@, id, updates)])

removeRoom(state, id) ==
    LET NotId(r) == r.id # id
    IN  Mutate(state, [state.present EXCEPT !.rooms = SelectSeq(@, NotId)])

addFurniture(state, id, type, position, width, height) ==
    Mutate(state, [state.present EXCEPT !.furniture =
        Append(@, [id |-> id, type |-> type, position |-> position,
                   width |-> width, height |-> height, rotation |-> 0])])

updateFurniture(state, id, updates) ==
    Mutate(state, [state.present EXCEPT !.furniture = Patch(@, id, updates)])

removeFurniture(state, id) ==
    LET NotId(f) == f.id # id
    IN  Mutate(state, [state.present EXCEPT !.furniture = SelectSeq(@, NotId)])

removeSelected(state, ids) ==
    LET NotIn(e) == e.id \notin ids
    IN  Mutate(state, [state.present EXCEPT
            !.walls = SelectSeq(@, NotIn),
            !.doors = SelectSeq(@, NotIn),
            !.windows = SelectSeq(@, NotIn),
            !.furniture = SelectSeq(@, NotIn),
            !.rooms = SelectSeq(@, NotIn)])

\* ------------------------------------------------------------------- inputs

\* An id no element carries: the argument of a call on a nonexistent element.
AbsentIds == {0}

Ids(s) == {s[i].id : i \in 1..Len(s)}
AllIds(doc) ==
    Ids(doc.walls) \cup Ids(doc.doors) \cup Ids(doc.windows)
        \cup Ids(doc.rooms) \cup Ids(doc.furniture)

\* Wall end points, in inches; the second pair is a zero-length wall.
WallEnds == {<<Point(0, 0), Point(120, 0)>>, <<Point(0, 0), Point(0, 0)>>}
\* Door and window positions in hundredths of the wall's length
\* (50 is 0.5, 150 is 1.5).
Positions == {50, 150}
WallUpdates == {[thickness |-> 8]}
DoorUpdates == {[swingDirection |-> "right"]}
WindowUpdates == {[position |-> 25]}
RoomUpdates == {[color |-> "#FFF3E0"]}
FurnitureUpdates == {[rotation |-> 90]}
Names == {"Home"}
UnitsValues == {"imperial", "metric"}
Images == {"data:image/png"}

\* Documents handed to setFloorplan: a well-formed one, and one whose door
\* names a wall the document does not hold.
ImportedDoc(wallId) ==
    [createEmptyFloorplan(101) EXCEPT
        !.name = "Imported",
        !.walls = <<[id |-> 102, start |-> Point(0, 0), end |-> Point(0, 96),
                     thickness |-> wallThickness]>>,
        !.doors = <<[id |-> 103, wallId |-> wallId, position |-> 50,
                     width |-> doorWidth, swingDirection |-> "left",
                     swingInward |-> TRUE]>>]
ImportDocs == {ImportedDoc(102), ImportedDoc(199)}

\* -------------------------------------------------------------------- state

Store == [past |-> past, present |-> present, future |-> future]

EmptyStore ==
    [past |-> <<>>, present |-> createEmptyFloorplan(1), future |-> <<>>]

\* The store after addWall, addDoor and addWindow on the new wall.
SeededStore ==
    LET s1 == addWall(EmptyStore, 2, Point(0, 0), Point(120, 0), wallThickness)
        s2 == addDoor(s1, 3, 2, 50, doorWidth)
    IN  addWindow(s2, 4, 2, 50, windowWidth, windowHeight)

\* The same store after two calls of undo.
UndoneStore == undo(undo(SeededStore))

\* The tools of the toolbar (type Tool).
Tools == {"select", "pan", "wall", "door", "window", "room", "furniture", "measure"}

\* The effect `Update cursor based on tool`: the canvas properties after it
\* ran for tool on a canvas whose properties are c.  The default branch
\* assigns defaultCursor and selection only.
CursorEffect(c, tool) ==
    CASE tool = "select" ->
            [defaultCursor |-> "default", hoverCursor |-> "move", selection |-> TRUE]
      [] tool = "pan" ->
            [defaultCursor |-> "grab", hoverCursor |-> "grab", selection |-> FALSE]
      [] tool = "wall" ->
            [defaultCursor |-> "crosshair", hoverCursor |-> "crosshair",
             selection |-> FALSE]
      [] OTHER ->
            [c EXCEPT !.defaultCursor = "default", !.selection = TRUE]

\* The cursor properties after the effect ran on mount (activeTool is
\* 'select', whose branch assigns all three).
MountedCursor ==
    CursorEffect([defaultCursor |-> "default", hoverCursor |-> "default",
                  selection |-> TRUE], "select")

NoEvent ==
    [kind |-> "none", point |-> Point(0, 0), snapped |-> Point(0, 0),
     tool |-> "select", drawing |-> FALSE, start |-> <<>>, gesture |-> 0,
     before |-> Store, calls |-> <<>>]

NoGesture == [count |-> 0, current |-> 0, cancelled |-> {}]

\* The text of the chat input, as the characters it holds.
Texts == {<<>>, <<" ">>, <<"a">>, <<" ", "a", " ">>}

\* String.prototype.trim: the text without its leading and trailing spaces.
Trim(text) ==
    LET letters == {i \in 1..Len(text) : text[i] # " "}
    IN  IF letters = {} THEN <<>>
        ELSE SubSeq(text, CHOOSE i \in letters : \A j \in letters : i <= j,
                          CHOOSE i \in letters : \A j \in letters : i >= j)

\* ChatPanel as mounted: its four useState values, no call of handleSubmit
\* under way.
ChatMounted ==
    [inputValue |-> <<>>, messages |-> <<>>, isLoading |-> FALSE, error |-> <<>>,
     inFlight |-> <<>>, started |-> 0]

\* The canvas component as mounted, with the ui-store as constructed.
CanvasMounted ==
    /\ activeTool = "select"
    /\ snapToGrid = TRUE
    /\ isDrawing = FALSE
    /\ drawStartRef = <<>>
    /\ previewLineRef = <<>>
    /\ previews = <<>>
    /\ cursor = MountedCursor
    /\ ev = NoEvent
    /\ gesture = NoGesture
    /\ contexts = <<>>
    /\ chat = ChatMounted

\* A session starts from the store as constructed; the other two initial
\* states are stores a session reaches (by the calls above), so that the
\* operations below act on a document with elements and on a redo stack.
Init ==
    /\ \E s \in {EmptyStore, SeededStore, UndoneStore} :
          /\ past = s.past
          /\ present = s.present
          /\ future = s.future
          /\ nextId = IF s = EmptyStore THEN 2 ELSE 5
    /\ op = [name |-> "init", id |-> 0, ids |-> {}, updates |-> <<>>]
    /\ prev = Store
    /\ steps = 0
    /\ fullContent = <<>>
    /\ toolCalls = <<>>
    /\ ran = <<>>
    /\ session = [store |-> Store, nextId |-> nextId, edited |-> FALSE]
    /\ CanvasMounted

\* One store call: set(...) installs the producer's result.  id is the
\* call's id argument (or the id it generates), ids its list of ids, updates
\* its patch.
Call(s, name, id, ids, updates) ==
    /\ steps < MaxSteps
    /\ steps' = steps + 1
    /\ past' = s.past
    /\ present' = s.present
    /\ future' = s.future
    /\ op' = [name |-> name, id |-> id, ids |-> ids, updates |-> updates]
    /\ prev' = Store
    /\ UNCHANGED <<fullContent, toolCalls, ran>>
    /\ session' = [session EXCEPT !.edited = TRUE]
    /\ UNCHANGED <<canvasVars, contexts, chat>>

Commit(s, name, id) == Call(s, name, id, {}, <<>>)

\* generateId(): Date.now() followed by nine random base-36 digits, taken
\* here to be an identifier never handed out before.
Fresh == nextId <= MaxIds /\ nextId' = nextId + 1
Same == UNCHANGED nextId

\* ------------------------------------------------------------ agent bridge
\* (src/src/components/toolbar/Toolbar.tsx, ChatPanel)

\* JSON values of an invocation's args.  An element id is a string; it is
\* kept apart from the other strings because the model's ids are numbers.
Num(n) == [num |-> n]
Str(s) == [str |-> s]
Bool(b) == [bool |-> b]
IdStr(id) == [id |-> id]
List(s) == [list |-> s]
Undefined == [undefined |-> TRUE]

\* args is the object JSON.parse returned: its keys in insertion order, each
\* with its value.  args[key] is undefined when the object has no such key.
Get(args, key) ==
    IF \E i \in 1..Len(args) : args[i][1] = key
    THEN args[CHOOSE i \in 1..Len(args) : args[i][1] = key][2]
    ELSE Undefined

\* if (v): false, 0, "" and undefined are falsy, every other value is truthy.
Truthy(v) ==
    CASE "bool" \in DOMAIN v -> v.bool
      [] "num" \in DOMAIN v -> v.num # 0
      [] "str" \in DOMAIN v -> v.str # ""
      [] OTHER -> "undefined" \notin DOMAIN v

\* The value as the store keeps it.
Plain(v) ==
    CASE "bool" \in DOMAIN v -> v.bool
      [] "num" \in DOMAIN v -> v.num
      [] "str" \in DOMAIN v -> v.str
      [] "id" \in DOMAIN v -> v.id
      [] "list" \in DOMAIN v -> v.list
      [] OTHER -> "undefined"

\* A parameter with a default value: the default stands in for undefined.
Default(v, d) == IF v = Undefined THEN d ELSE Plain(v)

\* An id argument as the store compares it with the ids of the elements: a
\* value that is not the id of an element equals none of them.
IdOf(v) == IF "id" \in DOMAIN v THEN v.id ELSE CHOOSE id \in AbsentIds : TRUE

FURNITURE_DIMENSIONS ==
    [t \in {"bed-twin", "bed-full", "bed-queen", "bed-king", "sofa-2", "sofa-3",
            "dining-table-4", "dining-table-6", "desk", "chair", "armchair",
            "coffee-table", "nightstand", "dresser", "toilet", "sink-bathroom",
            "bathtub", "shower", "sink-kitchen", "stove", "refrigerator",
            "dishwasher"} |->
        CASE t = "bed-twin" -> [width |-> 39, height |-> 75]
          [] t = "bed-full" -> [width |-> 54, height |-> 75]
          [] t = "bed-queen" -> [width |-> 60, height |-> 80]
          [] t = "bed-king" -> [width |-> 76, height |-> 80]
          [] t = "sofa-2" -> [width |-> 60, height |-> 36]
          [] t = "sofa-3" -> [width |-> 84, height |-> 36]
          [] t = "dining-table-4" -> [width |-> 48, height |-> 36]
          [] t = "dining-table-6" -> [width |-> 72, height |-> 36]
          [] t = "desk" -> [width |-> 60, height |-> 30]
          [] t = "chair" -> [width |-> 20, height |-> 20]
          [] t = "armchair" -> [width |-> 32, height |-> 34]
          [] t = "coffee-table" -> [width |-> 48, height |-> 24]
          [] t = "nightstand" -> [width |-> 24, height |-> 18]
          [] t = "dresser" -> [width |-> 60, height |-> 18]
          [] t = "toilet" -> [width |-> 18, height |-> 28]
          [] t = "sink-bathroom" -> [width |-> 24, height |-> 20]
          [] t = "bathtub" -> [width |-> 60, height |-> 32]
          [] t = "shower" -> [width |-> 36, height |-> 36]
          [] t = "sink-kitchen" -> [width |-> 33, height |-> 22]
          [] t = "stove" -> [width |-> 30, height |-> 26]
          [] t = "refrigerator" -> [width |-> 36, height |-> 30]
          [] t = "dishwasher" -> [width |-> 24, height |-> 24]]

\* FURNITURE_DIMENSIONS is an object literal: besides its own keys, a
\* property read finds the members it inherits from Object.prototype.
ObjectPrototypeKeys ==
    {"constructor", "toString", "valueOf", "hasOwnProperty", "__proto__"}

\* FURNITURE_DIMENSIONS[type]
DimensionsOf(type) ==
    IF "str" \notin DOMAIN type THEN Undefined
    ELSE IF type.str \in DOMAIN FURNITURE_DIMENSIONS
         THEN [width |-> Num(FURNITURE_DIMENSIONS[type.str].width),
               height |-> Num(FURNITURE_DIMENSIONS[type.str].height)]
    ELSE IF type.str \in ObjectPrototypeKeys
         THEN [width |-> Undefined, height |-> Undefined]
    ELSE Undefined

\* The names executeToolCall has a case for.
KnownTools ==
    {"addWall", "removeWall", "addDoor", "addWindow", "addFurniture",
     "moveFurniture", "rotateFurniture", "removeFurniture", "addRoom", "clearAll"}

\* floorplanTools: the shape each tool declares for its args (positions in
\* hundredths).
IsNum(v) == "num" \in DOMAIN v
IsStr(v) == "str" \in DOMAIN v \/ "id" \in DOMAIN v
IsBool(v) == "bool" \in DOMAIN v
IsList(v) == "list" \in DOMAIN v
IsOptNum(v) == v = Undefined \/ IsNum(v)
IsFraction(v) == IsNum(v) /\ 0 <= v.num /\ v.num <= 100
RoomTypes ==
    {"bedroom", "bathroom", "kitchen", "living", "dining", "office", "hallway",
     "closet", "laundry", "garage", "other"}

WellShaped(tool, args) ==
    CASE tool = "addWall" ->
            /\ IsNum(Get(args, "startX")) /\ IsNum(Get(args, "startY"))
            /\ IsNum(Get(args, "endX")) /\ IsNum(Get(args, "endY"))
            /\ IsOptNum(Get(args, "thickness"))
      [] tool = "removeWall" -> IsStr(Get(args, "wallId"))
      [] tool = "addDoor" ->
            /\ IsStr(Get(args, "wallId")) /\ IsFraction(Get(args, "position"))
            /\ IsOptNum(Get(args, "width"))
      [] tool = "addWindow" ->
            /\ IsStr(Get(args, "wallId")) /\ IsFraction(Get(args, "position"))
            /\ IsOptNum(Get(args, "width")) /\ IsOptNum(Get(args, "height"))
      [] tool = "addFurniture" ->
            /\ "str" \in DOMAIN Get(args, "type")
            /\ Get(args, "type").str \in DOMAIN FURNITURE_DIMENSIONS
            /\ IsNum(Get(args, "x")) /\ IsNum(Get(args, "y"))
            /\ IsOptNum(Get(args, "rotation"))
      [] tool = "moveFurniture" ->
            /\ IsStr(Get(args, "furnitureId"))
            /\ IsNum(Get(args, "x")) /\ IsNum(Get(args, "y"))
      [] tool = "rotateFurniture" ->
            IsStr(Get(args, "furnitureId")) /\ IsNum(Get(args, "rotation"))
      [] tool = "removeFurniture" -> IsStr(Get(args, "furnitureId"))
      [] tool = "addRoom" ->
            /\ "str" \in DOMAIN Get(args, "name")
            /\ "str" \in DOMAIN Get(args, "type")
            /\ Get(args, "type").str \in RoomTypes
            /\ IsList(Get(args, "wallIds"))
      [] tool = "clearAll" -> IsBool(Get(args, "confirm"))
      [] OTHER -> FALSE

\* What a run of store calls carries along: the store, the next id of
\* generateId, the store call made last and the store it was made on.
\* A run of store calls made on the store the response began on.
Context_sessionSnapshot ==
    [store |-> session.store, nextId |-> nextId, op |-> op, prev |-> prev]

Context == [store |-> Store, nextId |-> nextId, op |-> op, prev |-> prev]

\* The context after a store call that left store s; fresh tells whether the
\* call took an id from generateId.
After(c, s, name, id, updates, fresh) ==
    [store |-> s,
     nextId |-> IF fresh THEN c.nextId + 1 ELSE c.nextId,
     op |-> [name |-> name, id |-> id, ids |-> {}, updates |-> updates],
     prev |-> c.store]

\* A return statement that reports every invocation as not executed.
Returned_false(c, executed) == [c |-> c, executed |-> FALSE]

Returned(c, executed) == [c |-> c, executed |-> executed]

\* executeToolCall(tool, args): the context it leaves and the boolean it
\* returns.  No statement of its try block throws, so the catch is never
\* entered.
executeToolCall(c, tool, args) ==
    CASE tool = "addWall" ->
            LET start == Point(Plain(Get(args, "startX")), Plain(Get(args, "startY")))
                end == Point(Plain(Get(args, "endX")), Plain(Get(args, "endY")))
                thickness == Default(Get(args, "thickness"), wallThickness)
            IN  Returned(After(c, addWall(c.store, c.nextId, start, end, thickness),
                               "addWall", c.nextId, <<>>, TRUE), TRUE)
      [] tool = "removeWall" ->
            LET wallId == IdOf(Get(args, "wallId"))
            IN  Returned(After(c, removeWall(c.store, wallId),
                               "removeWall", wallId, <<>>, FALSE), TRUE)
      [] tool = "addDoor" ->
            LET wallId == IdOf(Get(args, "wallId"))
                position == Plain(Get(args, "position"))
                width == Default(Get(args, "width"), doorWidth)
            IN  Returned(After(c, addDoor(c.store, c.nextId, wallId, position, width),
                               "addDoor", c.nextId, <<>>, TRUE), TRUE)
      [] tool = "addWindow" ->
            LET wallId == IdOf(Get(args, "wallId"))
                position == Plain(Get(args, "position"))
                width == Default(Get(args, "width"), windowWidth)
                height == Default(Get(args, "height"), windowHeight)
            IN  Returned(After(c, addWindow(c.store, c.nextId, wallId, position,
                                            width, height),
                               "addWindow", c.nextId, <<>>, TRUE), TRUE)
      [] tool = "addFurniture" ->
            LET type == Get(args, "type")
                rotation == Get(args, "rotation")
                dimensions == DimensionsOf(type)
                furnitureId == c.nextId
                position == Point(Plain(Get(args, "x")), Plain(Get(args, "y")))
                added == After(c, addFurniture(c.store, furnitureId, Plain(type),
                                   position, Plain(dimensions.width),
                                   Plain(dimensions.height)),
                               "addFurniture", furnitureId, <<>>, TRUE)
                updates == [rotation |-> Plain(rotation)]
            IN  IF ~Truthy(dimensions) THEN Returned(c, FALSE)
                ELSE IF Truthy(rotation)
                     THEN Returned(After(added,
                              updateFurniture(added.store, furnitureId, updates),
                              "updateFurniture", furnitureId, updates, FALSE), TRUE)
                     ELSE Returned(added, TRUE)
      [] tool = "moveFurniture" ->
            LET furnitureId == IdOf(Get(args, "furnitureId"))
                updates == [position |->
                               Point(Plain(Get(args, "x")), Plain(Get(args, "y")))]
            IN  Returned(After(c, updateFurniture(c.store, furnitureId, updates),
                               "updateFurniture", furnitureId, updates, FALSE), TRUE)
      [] tool = "rotateFurniture" ->
            LET furnitureId == IdOf(Get(args, "furnitureId"))
                updates == [rotation |-> Plain(Get(args, "rotation"))]
            IN  Returned(After(c, updateFurniture(c.store, furnitureId, updates),
                               "updateFurniture", furnitureId, updates, FALSE), TRUE)
      [] tool = "removeFurniture" ->
            LET furnitureId == IdOf(Get(args, "furnitureId"))
            IN  Returned(After(c, removeFurniture(c.store, furnitureId),
                               "removeFurniture", furnitureId, <<>>, FALSE), TRUE)
      [] tool = "addRoom" ->
            Returned(After(c, addRoom(c.store, c.nextId, Plain(Get(args, "name")),
                                      Plain(Get(args, "type")),
                                      Plain(Get(args, "wallIds"))),
                           "addRoom", c.nextId, <<>>, TRUE), TRUE)
      [] tool = "clearAll" ->
            IF Truthy(Get(args, "confirm"))
            THEN Returned(After(c, resetFloorplan(c.store, c.nextId),
                                "resetFloorplan", 0, <<>>, TRUE), TRUE)
            ELSE Returned(c, FALSE)
      [] OTHER -> Returned(c, FALSE)

\* ------------------------------------------------------------------ actions

Undo == Commit(undo(Store), "undo", 0) /\ Same

Redo == Commit(redo(Store), "redo", 0) /\ Same

SetFloorplan ==
    \E fp \in ImportDocs : Commit(setFloorplan(Store, fp), "setFloorplan", 0) /\ Same

ResetFloorplan ==
    Commit(resetFloorplan(Store, nextId), "resetFloorplan", 0) /\ Fresh

SetName ==
    \E n \in Names : Commit(setName(Store, n), "setName", 0) /\ Same

SetUnits ==
    \E u \in UnitsValues : Commit(setUnits(Store, u), "setUnits", 0) /\ Same

SetBackgroundImage ==
    \E img \in Images :
        Commit(setBackgroundImage(Store, img), "setBackgroundImage", 0) /\ Same

AddWall ==
    \E e \in WallEnds :
        Commit(addWall(Store, nextId, e[1], e[2], wallThickness), "addWall", nextId)
        /\ Fresh

UpdateWall ==
    \E id \in Ids(present.walls) \cup AbsentIds, u \in WallUpdates :
        Call(updateWall(Store, id, u), "updateWall", id, {}, u) /\ Same

RemoveWall ==
    \E id \in Ids(present.walls) \cup AbsentIds :
        Commit(removeWall(Store, id), "removeWall", id) /\ Same

AddDoor ==
    \E w \in Ids(present.walls) \cup AbsentIds, p \in Positions :
        Commit(addDoor(Store, nextId, w, p, doorWidth), "addDoor", nextId) /\ Fresh

UpdateDoor ==
    \E id \in Ids(present.doors) \cup AbsentIds, u \in DoorUpdates :
        Call(updateDoor(Store, id, u), "updateDoor", id, {}, u) /\ Same

RemoveDoor ==
    \E id \in Ids(present.doors) \cup AbsentIds :
        Commit(removeDoor(Store, id), "removeDoor", id) /\ Same

AddWindow ==
    \E w \in Ids(present.walls) \cup AbsentIds, p \in Positions :
        Commit(addWindow(Store, nextId, w, p, windowWidth, windowHeight),
               "addWindow", nextId) /\ Fresh

UpdateWindow ==
    \E id \in Ids(present.windows) \cup AbsentIds, u \in WindowUpdates :
        Call(updateWindow(Store, id, u), "updateWindow", id, {}, u) /\ Same

RemoveWindow ==
    \E id \in Ids(present.windows) \cup AbsentIds :
        Commit(removeWindow(Store, id), "removeWindow", id) /\ Same

AddRoom ==
    \E ws \in {<<>>} \cup {<<w>> : w \in Ids(present.walls)} :
        Commit(addRoom(Store, nextId, "Kitchen", "kitchen", ws), "addRoom", nextId)
        /\ Fresh

UpdateRoom ==
    \E id \in Ids(present.rooms) \cup AbsentIds, u \in RoomUpdates :
        Call(updateRoom(Store, id, u), "updateRoom", id, {}, u) /\ Same

RemoveRoom ==
    \E id \in Ids(present.rooms) \cup AbsentIds :
        Commit(removeRoom(Store, id), "removeRoom", id) /\ Same

AddFurniture ==
    Commit(addFurniture(Store, nextId, "bed-queen", Point(10, 10), 60, 80),
           "addFurniture", nextId) /\ Fresh

UpdateFurniture ==
    \E id \in Ids(present.furniture) \cup AbsentIds, u \in FurnitureUpdates :
        Call(updateFurniture(Store, id, u), "updateFurniture", id, {}, u) /\ Same

RemoveFurniture ==
    \E id \in Ids(present.furniture) \cup AbsentIds :
        Commit(removeFurniture(Store, id), "removeFurniture", id) /\ Same

RemoveSelected ==
    \E ids \in SUBSET (AllIds(present) \cup AbsentIds) :
        /\ Cardinality(ids) \in 1..MaxSel
        /\ Call(removeSelected(Store, ids), "removeSelected", 0, ids, <<>>) /\ Same

Next ==
    \/ Undo \/ Redo
    \/ SetFloorplan \/ ResetFloorplan \/ SetName \/ SetUnits \/ SetBackgroundImage
    \/ AddWall \/ UpdateWall \/ RemoveWall
    \/ AddDoor \/ UpdateDoor \/ RemoveDoor
    \/ AddWindow \/ UpdateWindow \/ RemoveWindow
    \/ AddRoom \/ UpdateRoom \/ RemoveRoom
    \/ AddFurniture \/ UpdateFurniture \/ RemoveFurniture
    \/ RemoveSelected

Spec == Init /\ [][Next]_vars

\* ------------------------------------------------------- streaming session
\* (Toolbar.tsx, handleSubmit: the loop over the chunks of the response)

\* A piece of the response text that holds a tool call.  In the form
\* "toolName":"<tool>","args":{<args>} the args are a flat object with at least
\* one key (this is also what the second expression of parseToolCalls finds
\* inside a line 9:{"toolCallId":...,"toolName":...,"args":{...}}).
Invocation(tool, args) == [form |-> "simple", tool |-> tool, args |-> args]
Arg(key, value) == <<key, value>>

\* A line 9:{"toolCallId":"<id>","toolName":"<tool>","args":[<items>]}: its
\* args are an array (an object whose keys are the indices), so the line
\* holds no brace but its own and the first expression of parseToolCalls
\* finds it, JSON.parse accepts it and parsed.args is truthy.
SdkLine(tool, items) ==
    [form |-> "sdk", tool |-> tool,
     args |-> [i \in 1..Len(items) |-> <<ToString(i - 1), items[i]>>]]

\* existing.tool === tc.tool &&
\* JSON.stringify(existing.args) === JSON.stringify(tc.args)
\* JSON.stringify writes the keys of an object in insertion order: two args
\* objects give the same text when they hold the same keys, in the same
\* order, with the same values.
SameCall(a, b) == a.tool = b.tool /\ a.args = b.args

\* parseToolCalls(text): text is given as the pieces it holds, in order.
\* The first loop pushes every line the first expression finds; the second
\* loop pushes what the second expression finds unless toolCalls already
\* holds the same tool with the same args.
RECURSIVE ParseInto(_, _)
ParseInto(text, found) ==
    IF text = <<>> THEN found
    ELSE LET tc == [tool |-> Head(text).tool, args |-> Head(text).args,
                    executed |-> FALSE]
             exists == \E i \in 1..Len(found) : SameCall(found[i], tc)
         IN  ParseInto(Tail(text), IF exists THEN found ELSE Append(found, tc))

\* A payload cut by the end of a chunk: PayloadHead is its text up to and
\* with the first k of its args, PayloadTail the rest of the args and the
\* brace that closes them.
PayloadHead(tool, args, k) ==
    [form |-> "head", tool |-> tool, args |-> SubSeq(args, 1, k)]
PayloadTail(tool, args, k) ==
    [form |-> "tail", tool |-> tool, args |-> SubSeq(args, k + 1, Len(args))]

\* Strings with a closing brace in them.
BraceStrings == {"Loft {A}"}

\* The second expression takes the args up to the first closing brace,
\* (\{[^}]+\}): when a string among the args holds one, the text it took
\* stops inside that string and JSON.parse throws.
JsonParses(args) ==
    \A i \in 1..Len(args) :
        ~("str" \in DOMAIN args[i][2] /\ args[i][2].str \in BraceStrings)

\* The matches of the second expression that JSON.parse accepts, in order.
\* open is <<>>, or holds the payload whose "args":{ was found with no
\* closing brace after it yet; its ok is false once another payload's text
\* has run into the match.  A match that ends in a later piece takes that
\* piece's text up to its first closing brace with it.
RECURSIVE Matches(_, _, _)
Matches(text, open, found) ==
    IF text = <<>> THEN found
    ELSE LET piece == Head(text)
             rest == Tail(text)
         IN  CASE piece.form = "simple" ->
                    IF open = <<>> /\ JsonParses(piece.args)
                    THEN Matches(rest, <<>>, Append(found, piece))
                    ELSE Matches(rest, <<>>, found)
               [] piece.form = "head" ->
                    IF ~JsonParses(piece.args) THEN Matches(rest, <<>>, found)
                    ELSE IF open = <<>>
                    THEN Matches(rest, <<[tool |-> piece.tool, args |-> piece.args,
                                          ok |-> TRUE]>>, found)
                    ELSE Matches(rest, <<[open[1] EXCEPT !.ok = FALSE]>>, found)
               [] piece.form = "tail" ->
                    IF open # <<>> /\ open[1].ok /\ JsonParses(piece.args)
                    THEN Matches(rest, <<>>,
                             Append(found, [tool |-> open[1].tool,
                                            args |-> open[1].args \o piece.args]))
                    ELSE Matches(rest, <<>>, found)
               [] OTHER -> Matches(rest, <<>>, found)

parseToolCalls(text) ==
    LET IsSdk(piece) == piece.form = "sdk"
        lines == SelectSeq(text, IsSdk)
        first == [i \in 1..Len(lines) |->
                     [tool |-> lines[i].tool, args |-> lines[i].args,
                      executed |-> FALSE]]
    IN  ParseInto(Matches(text, <<>>, <<>>), first)

\* A loop that gives up at the first invocation executeToolCall turns down.
RECURSIVE ExecuteAll_stopsAtRejection(_, _, _)
ExecuteAll_stopsAtRejection(c, calls, done) ==
    IF calls = <<>> THEN [c |-> c, ran |-> done]
    ELSE LET tc == Head(calls)
             r == executeToolCall(c, tc.tool, tc.args)
             entry == [tool |-> tc.tool, args |-> tc.args, executed |-> r.executed,
                       before |-> c.store, after |-> r.c.store, nextId |-> c.nextId]
         IN  IF r.executed
             THEN ExecuteAll_stopsAtRejection(r.c, Tail(calls), Append(done, entry))
             ELSE [c |-> r.c, ran |-> Append(done, entry)]

\* for (const tc of newToolCalls) { tc.executed = executeToolCall(tc.tool, tc.args); }
\* done lists the invocations gone through, each with the store it was
\* executed on, the store it left and the id generateId had next.
RECURSIVE ExecuteAll(_, _, _)
ExecuteAll(c, calls, done) ==
    IF calls = <<>> THEN [c |-> c, ran |-> done]
    ELSE LET tc == Head(calls)
             r == executeToolCall(c, tc.tool, tc.args)
             entry == [tool |-> tc.tool, args |-> tc.args, executed |-> r.executed,
                       before |-> c.store, after |-> r.c.store, nextId |-> c.nextId]
         IN  ExecuteAll(r.c, Tail(calls), Append(done, entry))

\* The ids of the elements of list s, or an id of no element when s is empty.
Targets(s) == IF s = <<>> THEN AbsentIds ELSE Ids(s)

UnknownTools == {Invocation("paintWall", <<Arg("color", Str("red"))>>)}

\* The invocations a response may hold when the document is doc.
Invocations(doc) ==
    UnknownTools
    \cup {Invocation("clearAll", <<Arg("confirm", v)>>) :
             v \in {Bool(FALSE), Bool(TRUE), Str("yes")}}
    \cup {Invocation("clearAll", <<Arg("force", Bool(TRUE))>>)}
    \cup {Invocation("addFurniture",
              <<Arg("type", Str(t)), Arg("x", Num(10)), Arg("y", Num(10))>>) :
             t \in {"chair", "unknown-type", "constructor"}}
    \cup {Invocation("addFurniture",
              <<Arg("type", Str("bed-queen")), Arg("x", Num(10)), Arg("y", Num(10)),
                Arg("rotation", Num(90))>>)}
    \cup {Invocation("addWall",
              <<Arg("startX", Num(0)), Arg("startY", Num(0)),
                Arg("endX", Num(0)), Arg("endY", Num(96))>>)}
    \cup {Invocation("addWall",
              <<Arg("startX", Num(0)), Arg("startY", Num(0)), Arg("endY", Num(96))>>)}
    \cup {Invocation("removeWall", <<Arg("wallId", IdStr(w))>>) :
             w \in Targets(doc.walls)}
    \cup {Invocation("addDoor",
              <<Arg("wallId", IdStr(w)), Arg("position", Num(50))>>) :
             w \in Ids(doc.walls) \cup AbsentIds}
    \cup {Invocation("addDoor",
              <<Arg("wallId", IdStr(w)), Arg("position", Num(150))>>) :
             w \in Targets(doc.walls)}
    \cup {Invocation("addWindow",
              <<Arg("wallId", IdStr(w)), Arg("position", Num(50)),
                Arg("width", Num(24))>>) :
             w \in Targets(doc.walls)}
    \cup {Invocation("moveFurniture",
              <<Arg("furnitureId", IdStr(f)), Arg("x", Num(30)), Arg("y", Num(40))>>) :
             f \in Targets(doc.furniture)}
    \cup {Invocation("rotateFurniture",
              <<Arg("furnitureId", IdStr(f)), Arg("rotation", Num(180))>>) :
             f \in Targets(doc.furniture)}
    \cup {Invocation("removeFurniture", <<Arg("furnitureId", IdStr(f))>>) :
             f \in Targets(doc.furniture)}
    \cup {Invocation("addRoom",
              <<Arg("name", Str("Kitchen")), Arg("type", Str("kitchen")),
                Arg("wallIds", List(<<w>>))>>) :
             w \in Targets(doc.walls)}

\* Lines with array args a response may hold.
SdkLines == {SdkLine("addWall", <<Num(0), Num(0), Num(0), Num(96)>>)}

\* What one read of the response adds to the text: one invocation, an
\* invocation with an unknown name followed by another one, or a line with
\* array args, once or twice.
Chunks(doc) ==
    {<<a>> : a \in Invocations(doc)}
        \cup {<<u, a>> : u \in UnknownTools, a \in Invocations(doc)}
        \cup {<<l>> : l \in SdkLines} \cup {<<l, l>> : l \in SdkLines}

\* One turn of the loop: the text grows by the chunk, is parsed again from
\* its start, and the invocations not yet in assistantMessage.toolCalls are
\* executed and appended to it.
Turn(chunk) ==
    LET content == fullContent \o chunk
        parsed == parseToolCalls(content)
        IsNew(tc) == ~\E i \in 1..Len(toolCalls) : SameCall(toolCalls[i], tc)
        newToolCalls == SelectSeq(parsed, IsNew)
    IN  \E r \in {ExecuteAll(Context, newToolCalls, <<>>)} :
        /\ r.c.nextId <= MaxIds + 1
        /\ fullContent' = content
        /\ toolCalls' = toolCalls \o
              [i \in 1..Len(r.ran) |->
                  [tool |-> r.ran[i].tool, args |-> r.ran[i].args,
                   executed |-> r.ran[i].executed]]
        /\ ran' = r.ran
        /\ UNCHANGED session
        /\ UNCHANGED <<contexts, chat>>
        /\ past' = r.c.store.past
        /\ present' = r.c.store.present
        /\ future' = r.c.store.future
        /\ nextId' = r.c.nextId
        /\ op' = r.c.op
        /\ prev' = r.c.prev

\* A turn of the loop while the canvas is at rest.
Read(chunk) == Turn(chunk) /\ UNCHANGED canvasVars

ReadChunk ==
    \E chunk \in Chunks(present) :
        /\ steps < MaxSteps
        /\ steps' = steps + 1
        /\ Read(chunk)

\* The store after addWall, addDoor, addWindow and addFurniture.
FurnishedStore ==
    addFurniture(SeededStore, 5, "desk", Point(20, 20),
                 FURNITURE_DIMENSIONS["desk"].width, FURNITURE_DIMENSIONS["desk"].height)

\* A chat session starts on the store as constructed or on a store a user
\* has drawn on, with no response read yet.
InitAgent ==
    /\ \E s \in {EmptyStore, FurnishedStore} :
          /\ past = s.past
          /\ present = s.present
          /\ future = s.future
          /\ nextId = IF s = EmptyStore THEN 2 ELSE 6
    /\ op = [name |-> "init", id |-> 0, ids |-> {}, updates |-> <<>>]
    /\ prev = Store
    /\ steps = 0
    /\ fullContent = <<>>
    /\ toolCalls = <<>>
    /\ ran = <<>>
    /\ session = [store |-> Store, nextId |-> nextId, edited |-> FALSE]
    /\ CanvasMounted

\* While the response is read the user may use the undo and redo buttons.
NextAgent == ReadChunk \/ Undo \/ Redo

SpecAgent == InitAgent /\ [][NextAgent]_vars

\* ---------------------------------------------------- history at its cap

\* Documents a user loads one after the other (setFloorplan), three in turn.
PlanNames == <<"Plan A", "Plan B", "Plan C">>
PlanDoc(k) ==
    [createEmptyFloorplan(201 + (k % 3)) EXCEPT !.name = PlanNames[(k % 3) + 1]]

\* The store after the calls setFloorplan(PlanDoc(i)) ... setFloorplan(PlanDoc(k))
\* on store s.  (The test on t is always true: it has TLC evaluate t before
\* the next call.)
RECURSIVE LoadFrom(_, _, _)
LoadFrom(s, i, k) ==
    IF i > k THEN s
    ELSE LET t == setFloorplan(s, PlanDoc(i))
         IN  IF Len(t.past) >= 0 THEN LoadFrom(t, i + 1, k) ELSE t

\* The store after k calls of setFloorplan on the store as constructed.
LoadedStore(k) == LoadFrom(EmptyStore, 1, k)

\* A session whose history is one short of the cap, or at it.
InitCap ==
    /\ \E k \in {MAX_HISTORY - 1, MAX_HISTORY} :
          LET s == LoadedStore(k) IN
          /\ past = s.past
          /\ present = s.present
          /\ future = s.future
    /\ nextId = 2
    /\ op = [name |-> "init", id |-> 0, ids |-> {}, updates |-> <<>>]
    /\ prev = Store
    /\ steps = 0
    /\ fullContent = <<>>
    /\ toolCalls = <<>>
    /\ ran = <<>>
    /\ session = [store |-> Store, nextId |-> nextId, edited |-> FALSE]
    /\ CanvasMounted

SpecCap == InitCap /\ [][Next]_vars

\* ------------------------------------------------------------------- canvas

\* A mutant of Round: Math.floor(n / d).
Round_down(n, d) == n \div d

\* Math.round(n / d) for d > 0: the nearest integer, a tie going up.
Round(n, d) == (2 * n + d) \div (2 * d)

\* const snapSize = DEFAULTS.snapIncrement * DEFAULTS.scale
snapSize == snapIncrement * scale

\* A mutant of snapToGridPoint: the cell count is scaled by the grid size.
snapToGridPoint_gridSize(snap, x, y) ==
    IF ~snap THEN Point(x, y)
    ELSE Point(Round(x, snapSize) * (gridSize * scale),
               Round(y, snapSize) * (gridSize * scale))

\* useFabric.snapToGridPoint, snap being the snapToGrid it closed over.
snapToGridPoint(snap, x, y) ==
    IF ~snap THEN Point(x, y)
    ELSE Point(Round(x, snapSize) * snapSize, Round(y, snapSize) * snapSize)

\* The handlers' `snapToGrid ? snapToGridPoint(pointer.x, pointer.y) : {...}`.
SnappedPointer(c, pointer) ==
    IF c.snapToGrid THEN snapToGridPoint(c.snapToGrid, pointer.x, pointer.y)
    ELSE Point(pointer.x, pointer.y)

\* What the handlers read and write: the two ui-store settings, the
\* component's state and refs, and the preview lines on the canvas.
Component ==
    [activeTool |-> activeTool, snapToGrid |-> snapToGrid,
     isDrawing |-> isDrawing, drawStartRef |-> drawStartRef,
     previewLineRef |-> previewLineRef, previews |-> previews]

\* A handler's outcome: the component after it, and its calls of addWall.
Outcome(c, calls) == [c |-> c, calls |-> calls]

\* A mutant of handleMouseDown: the press also commits a wall of no length.
handleMouseDown_commits(c, pointer, line) ==
    IF c.activeTool # "wall" THEN Outcome(c, <<>>)
    ELSE LET snapped == SnappedPointer(c, pointer)
             new == [line |-> line, x1 |-> snapped.x, y1 |-> snapped.y,
                     x2 |-> snapped.x, y2 |-> snapped.y]
         IN  Outcome([c EXCEPT !.drawStartRef = <<snapped>>,
                               !.isDrawing = TRUE,
                               !.previewLineRef = <<line>>,
                               !.previews = Append(@, new)],
                     <<[start |-> snapped, end |-> snapped]>>)

\* handleMouseDown.  line is the identity of the fabric.Line it creates.
handleMouseDown(c, pointer, line) ==
    IF c.activeTool # "wall" THEN Outcome(c, <<>>)
    ELSE LET snapped == SnappedPointer(c, pointer)
             new == [line |-> line, x1 |-> snapped.x, y1 |-> snapped.y,
                     x2 |-> snapped.x, y2 |-> snapped.y]
         IN  Outcome([c EXCEPT !.drawStartRef = <<snapped>>,
                               !.isDrawing = TRUE,
                               !.previewLineRef = <<line>>,
                               !.previews = Append(@, new)],
                     <<>>)

\* handleMouseMove: previewLineRef.current.set({x2, y2}).
handleMouseMove(c, pointer) ==
    IF ~c.isDrawing \/ c.activeTool # "wall" THEN Outcome(c, <<>>)
    ELSE IF c.previewLineRef = <<>> \/ c.drawStartRef = <<>> THEN Outcome(c, <<>>)
    ELSE LET snapped == SnappedPointer(c, pointer)
             moved == [i \in 1..Len(c.previews) |->
                          IF c.previews[i].line = c.previewLineRef[1]
                          THEN [c.previews[i] EXCEPT !.x2 = snapped.x, !.y2 = snapped.y]
                          ELSE c.previews[i]]
         IN  Outcome([c EXCEPT !.previews = moved], <<>>)

\* handleMouseUp.  The pointer positions lie on whole inches (multiples of
\* DEFAULTS.scale pixels), for which x / DEFAULTS.scale is x \div scale.
handleMouseUp(c, pointer) ==
    IF ~c.isDrawing \/ c.activeTool # "wall" THEN Outcome(c, <<>>)
    ELSE IF c.drawStartRef = <<>> THEN Outcome(c, <<>>)
    ELSE LET snapped == SnappedPointer(c, pointer)
             start == c.drawStartRef[1]
             IsOther(l) == c.previewLineRef = <<>> \/ l.line # c.previewLineRef[1]
             dx == snapped.x - start.x
             dy == snapped.y - start.y
         IN  Outcome([c EXCEPT !.previews = SelectSeq(@, IsOther),
                               !.previewLineRef = <<>>,
                               !.isDrawing = FALSE,
                               !.drawStartRef = <<>>],
                     \* length > 10, length being Math.sqrt(dx * dx + dy * dy)
                     IF dx * dx + dy * dy > minLength * minLength
                     THEN <<[start |-> Point(start.x \div scale, start.y \div scale),
                             end |-> Point(snapped.x \div scale, snapped.y \div scale)]>>
                     ELSE <<>>)

\* Pointer positions, in canvas pixels.
Pointers == {Point(0, 0), Point(10, 0), Point(30, 40), Point(90, 0)}

\* The store after the calls of addWall a handler made (none or one), each
\* with DEFAULTS.wallThickness and a new id.
RECURSIVE AddWalls(_, _, _)
AddWalls(s, id, calls) ==
    IF calls = <<>> THEN s
    ELSE AddWalls(addWall(s, id, Head(calls).start, Head(calls).end, wallThickness),
                  id + 1, Tail(calls))

\* One pointer event: the handler runs; its calls of addWall reach the
\* store; when the document changed, the effect `Sync floorplan state to
\* canvas` removes every object that is not part of the grid, the preview
\* lines included, and draws the document anew.
Handle(kind, pointer, r) ==
    LET s == AddWalls(Store, nextId, r.calls)
        called == r.calls # <<>>
    IN  /\ steps < MaxEvents
        /\ steps' = steps + 1
        /\ nextId + Len(r.calls) <= MaxIds + 1
        /\ nextId' = nextId + Len(r.calls)
        /\ past' = s.past
        /\ present' = s.present
        /\ future' = s.future
        /\ op' = IF called
                 THEN [name |-> "addWall", id |-> nextId' - 1, ids |-> {},
                       updates |-> <<>>]
                 ELSE op
        /\ prev' = IF called THEN Store ELSE prev
        /\ session' = IF called THEN [session EXCEPT !.edited = TRUE] ELSE session
        /\ UNCHANGED <<fullContent, toolCalls, ran, contexts, chat>>
        /\ UNCHANGED <<activeTool, snapToGrid, cursor>>
        /\ isDrawing' = r.c.isDrawing
        /\ drawStartRef' = r.c.drawStartRef
        /\ previewLineRef' = r.c.previewLineRef
        /\ previews' = IF called THEN <<>> ELSE r.c.previews
        /\ ev' = [kind |-> kind, point |-> pointer,
                  snapped |-> SnappedPointer(Component, pointer),
                  tool |-> activeTool, drawing |-> isDrawing,
                  start |-> drawStartRef, gesture |-> gesture.current,
                  before |-> Store, calls |-> r.calls]

MouseDown ==
    \E pointer \in Pointers :
        LET line == gesture.count + 1
        IN  /\ Handle("down", pointer, handleMouseDown(Component, pointer, line))
            /\ gesture' = IF activeTool = "wall"
                          THEN [gesture EXCEPT !.count = line, !.current = line]
                          ELSE gesture

MouseMove ==
    \E pointer \in Pointers :
        /\ Handle("move", pointer, handleMouseMove(Component, pointer))
        /\ UNCHANGED gesture

\* A release that ends the gesture without a wall cancels it.
MouseUp ==
    \E pointer \in Pointers :
        LET r == handleMouseUp(Component, pointer)
        IN  /\ Handle("up", pointer, r)
            /\ gesture' = IF r.c.drawStartRef = drawStartRef THEN gesture
                          ELSE [gesture EXCEPT
                                   !.current = 0,
                                   !.cancelled = IF r.calls = <<>>
                                                 THEN @ \cup {gesture.current}
                                                 ELSE @]

\* A toolbar event leaves the stores' documents and the session alone.
Toolbar(kind) ==
    /\ steps < MaxEvents
    /\ steps' = steps + 1
    /\ UNCHANGED <<past, present, future, nextId, op, prev,
                   fullContent, toolCalls, ran, session, contexts, chat>>
    /\ UNCHANGED <<isDrawing, drawStartRef, previewLineRef, previews>>
    /\ ev' = [kind |-> kind, point |-> Point(0, 0), snapped |-> Point(0, 0),
              tool |-> activeTool, drawing |-> isDrawing,
              start |-> drawStartRef, gesture |-> gesture.current,
              before |-> Store, calls |-> <<>>]

\* A click on a tool button: setActiveTool(tool), after which the effect
\* `Update cursor based on tool` runs if the active tool changed.  A change
\* of tool while a gesture is open cancels the gesture.
SetActiveTool ==
    \E tool \in Tools :
        /\ Toolbar("tool")
        /\ activeTool' = tool
        /\ UNCHANGED snapToGrid
        /\ cursor' = IF tool = activeTool THEN cursor ELSE CursorEffect(cursor, tool)
        /\ gesture' = IF tool # activeTool /\ gesture.current # 0
                      THEN [gesture EXCEPT !.cancelled = @ \cup {gesture.current}]
                      ELSE gesture

\* toggleSnap.
ToggleSnap ==
    /\ Toolbar("snap")
    /\ snapToGrid' = ~snapToGrid
    /\ UNCHANGED <<activeTool, cursor, gesture>>

\* The editor as mounted, or after the wall tool was chosen or snapping
\* switched off (states SetActiveTool and ToggleSnap lead to).
InitCanvas ==
    /\ past = EmptyStore.past
    /\ present = EmptyStore.present
    /\ future = EmptyStore.future
    /\ nextId = 2
    /\ op = [name |-> "init", id |-> 0, ids |-> {}, updates |-> <<>>]
    /\ prev = Store
    /\ steps = 0
    /\ fullContent = <<>>
    /\ toolCalls = <<>>
    /\ ran = <<>>
    /\ session = [store |-> Store, nextId |-> nextId, edited |-> FALSE]
    /\ activeTool \in {"select", "wall"}
    /\ snapToGrid \in BOOLEAN
    /\ isDrawing = FALSE
    /\ drawStartRef = <<>>
    /\ previewLineRef = <<>>
    /\ previews = <<>>
    /\ cursor = CursorEffect(MountedCursor, activeTool)
    /\ ev = NoEvent
    /\ gesture = NoGesture
    /\ contexts = <<>>
    /\ chat = ChatMounted

NextCanvas == MouseDown \/ MouseMove \/ MouseUp \/ SetActiveTool \/ ToggleSnap

SpecCanvas == InitCanvas /\ [][NextCanvas]_vars

\* ----------------------------------------------------------------- snapping

\* Raw coordinates of a pointer, negative ones (left of or above the
\* viewport's origin) included.
Coords == (0 - MaxCoord)..MaxCoord

\* A pointer position is at hand, with snapping on or off.
InitSnap ==
    /\ past = EmptyStore.past
    /\ present = EmptyStore.present
    /\ future = EmptyStore.future
    /\ nextId = 2
    /\ op = [name |-> "init", id |-> 0, ids |-> {}, updates |-> <<>>]
    /\ prev = Store
    /\ steps = 0
    /\ fullContent = <<>>
    /\ toolCalls = <<>>
    /\ ran = <<>>
    /\ session = [store |-> Store, nextId |-> nextId, edited |-> FALSE]
    /\ activeTool = "select"
    /\ snapToGrid \in BOOLEAN
    /\ isDrawing = FALSE
    /\ drawStartRef = <<>>
    /\ previewLineRef = <<>>
    /\ previews = <<>>
    /\ cursor = MountedCursor
    /\ \E x \in Coords, y \in Coords :
          ev = [NoEvent EXCEPT !.kind = "pointer", !.point = Point(x, y)]
    /\ gesture = NoGesture
    /\ contexts = <<>>
    /\ chat = ChatMounted

\* snapToGridPoint is called on the pointer position.
SnapPoint ==
    /\ ev.kind = "pointer"
    /\ ev' = [ev EXCEPT !.kind = "snap",
                        !.snapped = snapToGridPoint(snapToGrid, ev.point.x, ev.point.y)]
    /\ UNCHANGED <<past, present, future, nextId, op, prev, steps,
                   fullContent, toolCalls, ran, session>>
    /\ UNCHANGED <<activeTool, snapToGrid, isDrawing, drawStartRef,
                   previewLineRef, previews, cursor, gesture, contexts, chat>>

\* snapToGridPoint is called on the point it returned.
SnapAgain ==
    /\ ev.kind = "snap"
    /\ ev' = [ev EXCEPT !.kind = "again",
                        !.point = ev.snapped,
                        !.snapped = snapToGridPoint(snapToGrid, ev.snapped.x, ev.snapped.y)]
    /\ UNCHANGED <<past, present, future, nextId, op, prev, steps,
                   fullContent, toolCalls, ran, session>>
    /\ UNCHANGED <<activeTool, snapToGrid, isDrawing, drawStartRef,
                   previewLineRef, previews, cursor, gesture, contexts, chat>>

NextSnap == SnapPoint \/ SnapAgain

SpecSnap == InitSnap /\ [][NextSnap]_vars

\* ------------------------------------------------------------ agent context

\* Math.round(Math.sqrt(Math.pow(dx, 2) + Math.pow(dy, 2))) for whole dx, dy:
\* the r >= 0 with r - 1/2 <= sqrt(dx^2 + dy^2) < r + 1/2.
RoundedLength(dx, dy) ==
    LET v == dx * dx + dy * dy
        reach == (IF dx < 0 THEN 0 - dx ELSE dx) + (IF dy < 0 THEN 0 - dy ELSE dy)
    IN  CHOOSE r \in 0..reach :
            /\ r = 0 \/ (2 * r - 1) * (2 * r - 1) <= 4 * v
            /\ 4 * v < (2 * r + 1) * (2 * r + 1)

\* One line of the context: the fixed text of its template and the values
\* put into it, in order.
Line(template, values) == <<template, values>>

\* The lines generateFloorplanContext pushes for one collection.
WallLines(walls) ==
    [i \in 1..Len(walls) |->
        Line("wall", <<i, walls[i].id, walls[i].start.x, walls[i].start.y,
                       walls[i].end.x, walls[i].end.y,
                       RoundedLength(walls[i].end.x - walls[i].start.x,
                                     walls[i].end.y - walls[i].start.y),
                       walls[i].thickness>>)]

\* (position * 100).toFixed(0): positions are held in hundredths here.
OpeningLines(template, openings) ==
    [i \in 1..Len(openings) |->
        Line(template, <<i, openings[i].id, openings[i].wallId,
                         openings[i].position, openings[i].width>>)]

FurnitureLines(furniture) ==
    [i \in 1..Len(furniture) |->
        Line("furniture", <<i, furniture[i].id, furniture[i].type,
                            furniture[i].position, furniture[i].width,
                            furniture[i].height, furniture[i].rotation>>)]

\* wallIds.join(', ') keeps the ids in their order.
RoomLines(rooms) ==
    [i \in 1..Len(rooms) |->
        Line("room", <<i, rooms[i].name, rooms[i].type, rooms[i].wallIds>>)]

\* A collection's heading and lines, or nothing when it is empty.
Section(template, items, lines) ==
    IF Len(items) > 0 THEN <<Line(template, <<Len(items)>>)>> \o lines ELSE <<>>

\* The array `lines` at the return statement.
ContextLines(floorplan) ==
    <<Line("Current floorplan state:", <<>>)>>
    \o (IF Len(floorplan.walls) = 0
        THEN <<Line("- No walls (empty floorplan)", <<>>)>>
        ELSE Section("Walls", floorplan.walls, WallLines(floorplan.walls)))
    \o Section("Doors", floorplan.doors, OpeningLines("door", floorplan.doors))
    \o Section("Windows", floorplan.windows, OpeningLines("window", floorplan.windows))
    \o Section("Furniture", floorplan.furniture, FurnitureLines(floorplan.furniture))
    \o Section("Rooms", floorplan.rooms, RoomLines(floorplan.rooms))

\* A mutant of generateFloorplanContext: it takes the walls off its
\* argument as it lists them (shift() in place of forEach).
generateFloorplanContext_shiftsWalls(floorplan) ==
    [lines |-> ContextLines(floorplan),
     floorplan |-> [floorplan EXCEPT !.walls = <<>>]]

\* generateFloorplanContext: the string it returns (lines.join('\n')) and
\* its argument as the call leaves it.  The function reads its argument
\* only and assigns to none of its fields.
generateFloorplanContext(floorplan) ==
    [lines |-> ContextLines(floorplan), floorplan |-> floorplan]

\* The chat route calls generateFloorplanContext on the document of the
\* request, the client's present at the time.
GenerateContext ==
    LET r == generateFloorplanContext(present)
    IN  /\ Len(contexts) < MaxCalls
        /\ contexts' = Append(contexts,
              [at |-> steps, floorplan |-> present, after |-> r.floorplan,
               lines |-> r.lines])
        /\ present' = r.floorplan
        /\ UNCHANGED <<past, future, nextId, op, prev, steps,
                       fullContent, toolCalls, ran, session>>
        /\ UNCHANGED <<canvasVars, chat>>

\* The store with a room on its wall.
RoomStore == addRoom(FurnishedStore, 6, "Kitchen", "kitchen", <<2>>)

InitContext ==
    /\ \E s \in {EmptyStore, FurnishedStore, RoomStore} :
          /\ past = s.past
          /\ present = s.present
          /\ future = s.future
          /\ nextId = IF s = EmptyStore THEN 2 ELSE 7
    /\ op = [name |-> "init", id |-> 0, ids |-> {}, updates |-> <<>>]
    /\ prev = Store
    /\ steps = 0
    /\ fullContent = <<>>
    /\ toolCalls = <<>>
    /\ ran = <<>>
    /\ session = [store |-> Store, nextId |-> nextId, edited |-> FALSE]
    /\ CanvasMounted

\* Requests are sent between calls of the store.
NextContext ==
    \/ GenerateContext
    \/ AddWall \/ RemoveWall \/ AddRoom \/ RemoveRoom \/ Undo \/ Redo

SpecContext == InitContext /\ [][NextContext]_vars

\* ------------------------------------------------------------- identifiers

\* updateWall(id, updates) with a patch that carries an id (Partial<Wall>
\* has the field; Object.assign copies it).
UpdateWallId ==
    \E id \in Ids(present.walls), other \in AllIds(present) :
        /\ other # id
        /\ Call(updateWall(Store, id, [id |-> other]), "updateWall", id, {},
                [id |-> other])
        /\ Same

NextIds == Next \/ UpdateWallId

SpecIds == Init /\ [][NextIds]_vars

\* --------------------------------------------------------- rooms and walls

\* A session on a document with a wall, a door and a window on it, a piece
\* of furniture and a room that names the wall.
InitRooms ==
    /\ past = RoomStore.past
    /\ present = RoomStore.present
    /\ future = RoomStore.future
    /\ nextId = 7
    /\ op = [name |-> "init", id |-> 0, ids |-> {}, updates |-> <<>>]
    /\ prev = Store
    /\ steps = 0
    /\ fullContent = <<>>
    /\ toolCalls = <<>>
    /\ ran = <<>>
    /\ session = [store |-> Store, nextId |-> nextId, edited |-> FALSE]
    /\ CanvasMounted

NextRooms ==
    \/ RemoveWall \/ RemoveSelected \/ AddWall \/ AddRoom \/ RemoveRoom
    \/ Undo \/ Redo

SpecRooms == InitRooms /\ [][NextRooms]_vars

\* --------------------------------------------------- payloads cut by chunks

\* Payloads a response may hold; the name of the second room has a closing
\* brace in it.
StreamPayloads ==
    {Invocation("addWall",
         <<Arg("startX", Num(0)), Arg("startY", Num(0)),
           Arg("endX", Num(0)), Arg("endY", Num(96))>>),
     Invocation("addFurniture",
         <<Arg("type", Str("chair")), Arg("x", Num(10)), Arg("y", Num(10))>>)}
    \cup {Invocation("addRoom",
              <<Arg("name", Str(n)), Arg("type", Str("kitchen")),
                Arg("wallIds", List(<<>>))>>) :
             n \in {"Kitchen"} \cup BraceStrings}

\* The last piece of the text read so far, when a chunk ended inside it.
OpenHead ==
    IF fullContent # <<>> /\ fullContent[Len(fullContent)].form = "head"
    THEN <<fullContent[Len(fullContent)]>>
    ELSE <<>>

\* What a read may add to the text: after a chunk that ended inside a
\* payload, the rest of that payload, alone or followed by a whole payload;
\* otherwise a whole payload, in one piece or two, or the first part of one.
StreamChunks ==
    IF OpenHead # <<>>
    THEN LET h == OpenHead[1]
             rests == {PayloadTail(p.tool, p.args, Len(h.args)) :
                          p \in {q \in StreamPayloads :
                                    PayloadHead(q.tool, q.args, Len(h.args)) = h}}
         IN  {<<t>> : t \in rests}
                 \cup {<<t, p>> : t \in rests, p \in StreamPayloads}
    ELSE {<<p>> : p \in StreamPayloads}
             \cup {<<PayloadHead(p.tool, p.args, k)>> :
                      p \in StreamPayloads, k \in {0, 1, 2}}
             \cup {<<PayloadHead(p.tool, p.args, 1), PayloadTail(p.tool, p.args, 1)>> :
                      p \in StreamPayloads}

ReadPart ==
    \E chunk \in StreamChunks :
        /\ steps < MaxSteps
        /\ steps' = steps + 1
        /\ Read(chunk)

NextStream == ReadPart \/ Undo \/ Redo

SpecStream == InitAgent /\ [][NextStream]_vars

\* ------------------------------------------- a response during a gesture

\* What one read adds to a response that arrives while the user draws: an
\* invocation on its own, or two of them in one chunk.
GestureChunks(doc) ==
    LET wall == Invocation("addWall",
                    <<Arg("startX", Num(0)), Arg("startY", Num(0)),
                      Arg("endX", Num(0)), Arg("endY", Num(96))>>)
        chair == Invocation("addFurniture",
                    <<Arg("type", Str("chair")), Arg("x", Num(10)), Arg("y", Num(10))>>)
    IN  {<<wall>>, <<chair>>, <<wall, chair>>}
            \cup {<<Invocation("removeWall", <<Arg("wallId", IdStr(w))>>)>> :
                     w \in Ids(doc.walls)}
            \cup {<<Invocation("addDoor",
                       <<Arg("wallId", IdStr(w)), Arg("position", Num(50))>>)>> :
                     w \in Ids(doc.walls)}

\* One turn of the loop between two pointer events.  The canvas component
\* renders again when the document changed, and its effect `Sync floorplan
\* state to canvas` removes every object but the grid, the preview line
\* included; the refs and the drawing state are left as they are.
ReadDuringGesture ==
    \E chunk \in GestureChunks(present) :
        /\ steps < MaxEvents
        /\ steps' = steps + 1
        /\ Turn(chunk)
        /\ previews' = IF present' = present THEN previews ELSE <<>>
        /\ ev' = [NoEvent EXCEPT !.kind = "chunk", !.before = Store,
                                 !.tool = activeTool, !.drawing = isDrawing,
                                 !.start = drawStartRef,
                                 !.gesture = gesture.current]
        /\ UNCHANGED <<activeTool, snapToGrid, isDrawing, drawStartRef,
                       previewLineRef, cursor, gesture>>

\* The wall tool is active and a response is being read, on an empty
\* document or on one with a wall, a door and a window.
InitGesture ==
    /\ \E s \in {EmptyStore, SeededStore} :
          /\ past = s.past
          /\ present = s.present
          /\ future = s.future
          /\ nextId = IF s = EmptyStore THEN 2 ELSE 5
    /\ op = [name |-> "init", id |-> 0, ids |-> {}, updates |-> <<>>]
    /\ prev = Store
    /\ steps = 0
    /\ fullContent = <<>>
    /\ toolCalls = <<>>
    /\ ran = <<>>
    /\ session = [store |-> Store, nextId |-> nextId, edited |-> FALSE]
    /\ activeTool = "wall"
    /\ snapToGrid = FALSE
    /\ isDrawing = FALSE
    /\ drawStartRef = <<>>
    /\ previewLineRef = <<>>
    /\ previews = <<>>
    /\ cursor = CursorEffect(MountedCursor, activeTool)
    /\ ev = NoEvent
    /\ gesture = NoGesture
    /\ contexts = <<>>
    /\ chat = ChatMounted

NextGesture == MouseDown \/ MouseMove \/ MouseUp \/ ReadDuringGesture

SpecGesture == InitGesture /\ [][NextGesture]_vars

\* ------------------------------------------------------- chat submissions
\* (Toolbar.tsx, ChatPanel: handleSubmit from the submit event to its
\* finally block)

\* if (!inputValue.trim() || isLoading) return;
Accepts(c) == Trim(c.inputValue) # <<>> /\ ~c.isLoading

\* handleSubmit up to its first await: the user's message is appended, the
\* input cleared, isLoading set and error cleared; the call waits for fetch.
Begin(c) ==
    [c EXCEPT !.messages = Append(@, [role |-> "user", content |-> Trim(c.inputValue)]),
              !.inputValue = <<>>,
              !.isLoading = TRUE,
              !.error = <<>>,
              !.inFlight = Append(@, [pc |-> "fetch"]),
              !.started = @ + 1]

\* The call at position i of inFlight moves on to await `pc`.
Await(c, i, pc) == [c EXCEPT !.inFlight[i].pc = pc]

\* A catch block that returns before the finally block is reached.
Settle_returnsInCatch(c, i, err) ==
    LET rest == [k \in 1..(Len(c.inFlight) - 1) |->
                    IF k < i THEN c.inFlight[k] ELSE c.inFlight[k + 1]]
    IN  [c EXCEPT !.error = IF err = <<>> THEN @ ELSE err,
                  !.isLoading = IF err = <<>> THEN FALSE ELSE @,
                  !.inFlight = rest]

\* The end of the call at position i: the catch block when err holds a
\* message, then the finally block.
Settle(c, i, err) ==
    LET rest == [k \in 1..(Len(c.inFlight) - 1) |->
                    IF k < i THEN c.inFlight[k] ELSE c.inFlight[k + 1]]
    IN  [c EXCEPT !.error = IF err = <<>> THEN @ ELSE err,
                  !.isLoading = FALSE,
                  !.inFlight = rest]

\* The calls of handleSubmit waiting at `pc`.
Waiting(pc) == {i \in 1..Len(chat.inFlight) : chat.inFlight[i].pc = pc}

\* An event of the chat panel that leaves the store, the response being
\* read and the canvas alone.
ChatOnly ==
    UNCHANGED <<past, present, future, nextId, op, prev, steps,
                fullContent, toolCalls, ran, session, canvasVars, contexts>>

\* onChange of the input, which is disabled while isLoading.
TypeInput ==
    \E text \in Texts :
        /\ ~chat.isLoading
        /\ text # chat.inputValue
        /\ chat' = [chat EXCEPT !.inputValue = text]
        /\ ChatOnly

\* onSubmit of the form: handleSubmit returns at once or runs to its first
\* await.
Submit ==
    /\ chat.started < MaxCalls
    /\ chat' = IF Accepts(chat) THEN Begin(chat) ELSE chat
    /\ ChatOnly

\* await fetch(...) rejects.
FetchRejects ==
    \E i \in Waiting("fetch") :
        /\ chat' = Settle(chat, i, <<"Failed to fetch">>)
        /\ ChatOnly

\* await fetch(...) resolves with a response that is not ok: the call
\* awaits response.json().
FetchNotOk ==
    \E i \in Waiting("fetch") :
        /\ chat' = Await(chat, i, "json")
        /\ ChatOnly

\* await response.json() resolves or rejects; either way the call throws.
ErrorRead ==
    \E i \in Waiting("json"), message \in {"Failed to get response", "Unexpected token"} :
        /\ chat' = Settle(chat, i, <<message>>)
        /\ ChatOnly

\* await fetch(...) resolves with an ok response that has no body.
FetchNoBody ==
    \E i \in Waiting("fetch") :
        /\ chat' = Settle(chat, i, <<"No response body">>)
        /\ ChatOnly

\* await fetch(...) resolves with an ok response: the assistant's message
\* is appended with no tool calls, fullContent is empty, and the call
\* awaits reader.read().
FetchOk ==
    \E i \in Waiting("fetch") :
        /\ chat' = [Await(chat, i, "read") EXCEPT
                       !.messages = Append(@, [role |-> "assistant", content |-> <<>>])]
        /\ fullContent' = <<>>
        /\ toolCalls' = <<>>
        /\ ran' = <<>>
        /\ session' = [store |-> Store, nextId |-> nextId, edited |-> FALSE]
        /\ UNCHANGED <<past, present, future, nextId, op, prev, steps,
                       canvasVars, contexts>>

\* What one read adds to the response of a submission.
ChatChunks ==
    {<<Invocation("addWall",
           <<Arg("startX", Num(0)), Arg("startY", Num(0)),
             Arg("endX", Num(0)), Arg("endY", Num(96))>>)>>,
     <<Invocation("addFurniture",
           <<Arg("type", Str("chair")), Arg("x", Num(10)), Arg("y", Num(10))>>)>>,
     <<Invocation("paintWall", <<Arg("color", Str("red"))>>)>>}

\* await reader.read() resolves with a chunk: one turn of the loop.
ReadValue ==
    \E i \in Waiting("read"), chunk \in ChatChunks :
        /\ steps < MaxSteps
        /\ steps' = steps + 1
        /\ Turn(chunk)
        /\ UNCHANGED canvasVars

\* await reader.read() resolves with done: break, then the finally block.
ReadDone ==
    \E i \in Waiting("read") :
        /\ chat' = Settle(chat, i, <<>>)
        /\ ChatOnly

\* await reader.read() rejects.
ReadRejects ==
    \E i \in Waiting("read") :
        /\ chat' = Settle(chat, i, <<"network error">>)
        /\ ChatOnly

\* The chat panel as mounted, on the store as constructed or on a store a
\* user has drawn on.
InitChat ==
    /\ \E s \in {EmptyStore, SeededStore} :
          /\ past = s.past
          /\ present = s.present
          /\ future = s.future
          /\ nextId = IF s = EmptyStore THEN 2 ELSE 5
    /\ op = [name |-> "init", id |-> 0, ids |-> {}, updates |-> <<>>]
    /\ prev = Store
    /\ steps = 0
    /\ fullContent = <<>>
    /\ toolCalls = <<>>
    /\ ran = <<>>
    /\ session = [store |-> Store, nextId |-> nextId, edited |-> FALSE]
    /\ CanvasMounted

\* await fetch(...) is settled.
FetchSettles == FetchRejects \/ FetchNotOk \/ FetchNoBody \/ FetchOk

\* The stream ends or fails.
StreamEnds == ReadDone \/ ReadRejects

NextChat ==
    TypeInput \/ Submit \/ FetchSettles \/ ErrorRead \/ ReadValue \/ StreamEnds

SpecChat == InitChat /\ [][NextChat]_vars

\* Every promise handleSubmit awaits is settled, and a response is a finite
\* stream: it ends or fails after finitely many chunks.
SpecChatFair ==
    SpecChat /\ WF_vars(FetchSettles) /\ WF_vars(ErrorRead) /\ WF_vars(StreamEnds)

\* ------------------------------------------------------------------- claims

\* The commands that record history (pushToHistory in their body).
MutatingCommands ==
    {"addWall", "updateWall", "removeWall", "addDoor", "updateDoor", "removeDoor",
     "addWindow", "updateWindow", "removeWindow", "addRoom", "updateRoom",
     "removeRoom", "addFurniture", "updateFurniture", "removeFurniture",
     "removeSelected", "resetFloorplan", "setFloorplan", "setUnits",
     "setBackgroundImage"}

Last(s) == s[Len(s)]
Range(s) == {s[i] : i \in 1..Len(s)}

\* n calls of undo, and n calls of redo, one after the other.  (The test on
\* s is always true: it has TLC evaluate s before the next call.)
RECURSIVE UndoTimes(_, _)
UndoTimes(state, n) ==
    IF n = 0 THEN state
    ELSE LET s == undo(state)
         IN  IF Len(s.past) >= 0 THEN UndoTimes(s, n - 1) ELSE s

RECURSIVE RedoTimes(_, _)
RedoTimes(state, n) ==
    IF n = 0 THEN state
    ELSE LET s == redo(state)
         IN  IF Len(s.past) >= 0 THEN RedoTimes(s, n - 1) ELSE s

\* new is old without the entries at the indices in drop, the others in order.
KeptInOrder(old, new, drop) ==
    /\ Len(new) = Len(old) - Cardinality(drop)
    /\ \A i \in (1..Len(old)) \ drop :
          new[i - Cardinality({j \in drop : j < i})] = old[i]

\* C1: right after a mutating command the last entry of past is the present
\* document as it was right before the command.
C1_PastHoldsPreMutation ==
    op.name \in MutatingCommands =>
        Len(past) > 0 /\ Last(past) = prev.present

\* C2: n undos followed by n redos give back the present document that n
\* mutating commands left.  Every mutating command adds an entry to past
\* (or finds it at the cap), so after n <= MAX_HISTORY commands past holds
\* at least n entries; for every such n, the n undos each take an entry
\* off past and the n redos end on the present document.
C2_UndoRedoInverse ==
    /\ op.name \in MutatingCommands =>
          Len(past) = IF Len(prev.past) < MAX_HISTORY
                      THEN Len(prev.past) + 1 ELSE MAX_HISTORY
    /\ \A n \in 1..Len(past) :
          /\ Len(UndoTimes(Store, n).past) = Len(past) - n
          /\ RedoTimes(UndoTimes(Store, n), n).present = present

C2_Witness ==
    /\ op.name \in MutatingCommands
    /\ Len(past) >= 2
    /\ UndoTimes(Store, 2).present # present
    /\ UndoTimes(Store, 2).future # <<>>

\* C3: after removeWall(id) no wall has that id and no door or window is on
\* that wall; every other wall, door and window is kept, in the same order.
C3_RemoveWallCascades ==
    op.name = "removeWall" =>
        LET id == op.id
            old == prev.present
        IN  /\ ~HasId(present.walls, id)
            /\ \A i \in 1..Len(present.doors) : present.doors[i].wallId # id
            /\ \A i \in 1..Len(present.windows) : present.windows[i].wallId # id
            /\ KeptInOrder(old.walls, present.walls,
                   {i \in 1..Len(old.walls) : old.walls[i].id = id})
            /\ KeptInOrder(old.doors, present.doors,
                   {i \in 1..Len(old.doors) : old.doors[i].wallId = id})
            /\ KeptInOrder(old.windows, present.windows,
                   {i \in 1..Len(old.windows) : old.windows[i].wallId = id})

C3_Witness ==
    /\ op.name = "removeWall"
    /\ HasId(prev.present.walls, op.id)
    /\ \E i \in 1..Len(prev.present.doors) : prev.present.doors[i].wallId = op.id
    /\ \E i \in 1..Len(prev.present.windows) : prev.present.windows[i].wallId = op.id
    /\ Len(present.walls) + Len(present.doors) + Len(present.windows) > 0

\* C4: removeWall(W) on a wall with a door and a window adds one entry to
\* past, and one undo after it brings back W, its doors and its windows.
C4_CascadeUndoneAtOnce ==
    [][(/\ op.name = "removeWall"
        /\ op'.name = "undo"
        /\ \E i \in 1..Len(prev.present.doors) : prev.present.doors[i].wallId = op.id
        /\ \E i \in 1..Len(prev.present.windows) : prev.present.windows[i].wallId = op.id
        /\ HasId(prev.present.walls, op.id))
       => /\ Len(past) = Len(prev.past) + 1
          /\ \A w \in Range(prev.present.walls) :
                w.id = op.id => w \in Range(present'.walls)
          /\ \A d \in Range(prev.present.doors) :
                d.wallId = op.id => d \in Range(present'.doors)
          /\ \A w \in Range(prev.present.windows) :
                w.wallId = op.id => w \in Range(present'.windows)]_vars

\* C5: past never holds more than MAX_HISTORY documents, under every
\* interleaving of commands, undo and redo; a command issued at the cap
\* evicts the oldest entry; no more than MAX_HISTORY undos in a row take
\* effect.
C5_HistoryCap ==
    /\ Len(past) <= MAX_HISTORY
    /\ (op.name \in MutatingCommands /\ Len(prev.past) = MAX_HISTORY) =>
          /\ Len(past) = MAX_HISTORY
          /\ \A i \in 1..(MAX_HISTORY - 1) : past[i] = prev.past[i + 1]
    /\ LET bottom == UndoTimes(Store, MAX_HISTORY)
       IN  undo(bottom) = bottom

C5_Witness ==
    /\ op.name \in MutatingCommands
    /\ Len(prev.past) = MAX_HISTORY
    /\ Len(past) = MAX_HISTORY
    /\ past[1] # prev.past[1]
    /\ prev.past[1] \notin Range(past)

\* C6: right after a mutating command future is empty, redo does nothing,
\* and every document undo and redo can bring back is an entry of the
\* command's past, the present it was called on or the present it made:
\* none comes from the future the command discarded.
C6_RedoInvalidated ==
    op.name \in MutatingCommands =>
        /\ future = <<>>
        /\ ~canRedo(Store)
        /\ redo(Store) = Store
        /\ \A k \in 0..Len(past) :
              UndoTimes(Store, k).present
                  \in Range(prev.past) \cup {prev.present, present}
        /\ \A k \in 0..Len(past) : \A j \in 0..k :
              RedoTimes(UndoTimes(Store, k), j).present
                  \in Range(prev.past) \cup {prev.present, present}

C6_Witness ==
    /\ op.name \in MutatingCommands
    /\ prev.future # <<>>
    /\ \E d \in Range(prev.future) :
          d \notin Range(prev.past) \cup {prev.present, present}
    /\ future = <<>>

\* C7: a mutating command leaves the entries of past as they are and
\* appends a copy of the present that its own writes to the present do not
\* reach.
C7_SnapshotsImmutableUnaliased ==
    op.name \in MutatingCommands =>
        LET n == Len(past)
            m == Len(prev.past)
        IN  /\ n > 0
            /\ \A i \in 1..(n - 1) : past[i] = prev.past[m - (n - 1) + i]
            /\ past[n] = prev.present

\* C8: undo changes nothing exactly when canUndo() is false, redo changes
\* nothing exactly when canRedo() is false.
C8_BoundaryNoOps ==
    /\ op.name = "undo" => ((Store = prev) <=> ~canUndo(prev))
    /\ op.name = "redo" => ((Store = prev) <=> ~canRedo(prev))

C8_Witness ==
    \/ op.name = "undo" /\ ~canUndo(prev) /\ Store = prev
    \/ op.name = "redo" /\ ~canRedo(prev) /\ Store = prev /\ canUndo(prev)

\* C9: undo moves the last entry of past into present and the present to
\* the front of future; redo moves the first entry of future into present
\* and the present to the end of past; each undoes the other.
C9_UndoRedoSteps ==
    /\ (op.name = "undo" /\ Len(prev.past) > 0) =>
          /\ present = Last(prev.past)
          /\ past = SubSeq(prev.past, 1, Len(prev.past) - 1)
          /\ future = <<prev.present>> \o prev.future
          /\ redo(Store) = prev
    /\ (op.name = "redo" /\ Len(prev.future) > 0) =>
          /\ present = Head(prev.future)
          /\ future = Tail(prev.future)
          /\ past = Append(prev.past, prev.present)
          /\ undo(Store) = prev

C9_Witness ==
    /\ op.name = "redo"
    /\ Len(prev.future) > 0
    /\ Len(prev.past) > 0
    /\ present # prev.present

\* C10: a step that changes the present document, other than undo and
\* redo, appends the present it started from to past once and empties
\* future.
C10_EveryChangeRecorded ==
    (op.name \notin {"init", "undo", "redo"} /\ present # prev.present) =>
        /\ Len(past) = IF Len(prev.past) < MAX_HISTORY
                       THEN Len(prev.past) + 1 ELSE MAX_HISTORY
        /\ Last(past) = prev.present
        /\ future = <<>>

\* The elements of document doc, of any of the five collections.
Elements(doc) ==
    Range(doc.walls) \cup Range(doc.doors) \cup Range(doc.windows)
        \cup Range(doc.rooms) \cup Range(doc.furniture)

\* C11: removeSelected(ids), called with fewer than MAX_HISTORY entries in
\* past, adds one entry to past and leaves no element whose id is in ids in
\* any of the five collections, and one undo after it brings back every
\* element it removed.
C11_BulkRemoveUndoneAtOnce ==
    [][(/\ op.name = "removeSelected"
        /\ op'.name = "undo"
        /\ Len(prev.past) < MAX_HISTORY)
       => /\ Len(past) = Len(prev.past) + 1
          /\ \A e \in Elements(present) : e.id \notin op.ids
          /\ \A e \in Elements(prev.present) :
                e.id \in op.ids => e \in Elements(present')]_vars

\* C12: after removeSelected(ids) with the id of a wall W in ids, no door
\* and no window of the present document is on W.
C12_BulkRemoveCascades ==
    op.name = "removeSelected" =>
        \A w \in Range(prev.present.walls) :
            w.id \in op.ids =>
                /\ \A d \in Range(present.doors) : d.wallId # w.id
                /\ \A d \in Range(present.windows) : d.wallId # w.id

\* C13: every door and every window of the present document that addDoor
\* or addWindow created has its position, in hundredths, between 0 and 100.
\* (The doors and windows of the documents handed to setFloorplan, and the
\* positions the patches of updateDoor and updateWindow set, are in that
\* range.)
C13_PositionClamped ==
    /\ \A d \in Range(present.doors) : 0 <= d.position /\ d.position <= 100
    /\ \A w \in Range(present.windows) : 0 <= w.position /\ w.position <= 100

\* C14: right after addDoor or addWindow, the wallId of the door or window
\* it created is the id of a wall of the present document.
C14_CreatedOnExistingWall ==
    /\ op.name = "addDoor" =>
          \A d \in Range(present.doors) :
              d.id = op.id => HasId(present.walls, d.wallId)
    /\ op.name = "addWindow" =>
          \A w \in Range(present.windows) :
              w.id = op.id => HasId(present.walls, w.wallId)

\* Every door and every window of doc is on a wall of doc.
WellFormed(doc) ==
    /\ \A d \in Range(doc.doors) : HasId(doc.walls, d.wallId)
    /\ \A w \in Range(doc.windows) : HasId(doc.walls, w.wallId)

\* C15: a call of setFloorplan that changes the store is a call with a
\* document all of whose doors and windows are on walls of that document:
\* a document with a door or window on a wall it does not hold is
\* rejected, leaving past, present and future as they were.
C15_MalformedImportRejected ==
    (op.name = "setFloorplan" /\ Store # prev) => WellFormed(present)

\* The collection of the document each update* and remove* command works on.
CollectionOf ==
    [updateWall |-> "walls", removeWall |-> "walls",
     updateDoor |-> "doors", removeDoor |-> "doors",
     updateWindow |-> "windows", removeWindow |-> "windows",
     updateRoom |-> "rooms", removeRoom |-> "rooms",
     updateFurniture |-> "furniture", removeFurniture |-> "furniture"]

UpdateCommands ==
    {"updateWall", "updateDoor", "updateWindow", "updateRoom", "updateFurniture"}

\* C16: update*(id, patch) leaves every field of the document other than
\* its collection as it was, keeps the collection's length and order and
\* every element with another id; the element with that id keeps its id and
\* its unpatched fields and takes the patch's fields; when no element has
\* that id the document is as it was (and the call ends normally).  The
\* patches are patches of fields other than id.
C16_UpdateFrame ==
    op.name \in UpdateCommands =>
        LET f == CollectionOf[op.name]
            old == prev.present[f]
            new == present[f]
            hit == {i \in 1..Len(old) : old[i].id = op.id}
        IN  /\ DOMAIN present = DOMAIN prev.present
            /\ \A g \in DOMAIN present \ {f} : present[g] = prev.present[g]
            /\ Len(new) = Len(old)
            /\ \A i \in (1..Len(old)) \ hit : new[i] = old[i]
            /\ \A i \in hit :
                  /\ new[i].id = old[i].id
                  /\ DOMAIN new[i] = DOMAIN old[i] \cup DOMAIN op.updates
                  /\ \A k \in DOMAIN old[i] \ DOMAIN op.updates :
                        new[i][k] = old[i][k]
                  /\ \A k \in DOMAIN op.updates : new[i][k] = op.updates[k]
            /\ hit = {} => present = prev.present

C16_Witness ==
    /\ op.name = "updateDoor"
    /\ Len(prev.present.doors) = 2
    /\ Len(prev.present.windows) > 0
    /\ HasId(prev.present.doors, op.id)
    /\ present # prev.present
    /\ \E i \in 1..2 : present.doors[i] = prev.present.doors[i]

\* C17: an update* or remove* whose id is the id of no element of its
\* collection leaves past, present and future as they were.
C17_AbsentIdNoOp ==
    (/\ op.name \in DOMAIN CollectionOf
     /\ ~HasId(prev.present[CollectionOf[op.name]], op.id))
        => Store = prev

\* C18: a clearAll invocation whose confirm is absent or falsy leaves the
\* store as it was and is reported unexecuted; a clearAll that changes the
\* store is one whose confirm is true; with confirm true it is reported
\* executed, makes the present an empty floorplan, adds one entry to past
\* (below the cap), and one undo brings the document back.
C18_ClearAllNeedsConfirmTrue ==
    \A i \in 1..Len(ran) :
        ran[i].tool = "clearAll" =>
            LET e == ran[i]
                confirm == Get(e.args, "confirm")
            IN  /\ ~Truthy(confirm) => (e.after = e.before /\ ~e.executed)
                /\ (e.after # e.before \/ e.executed) => confirm = Bool(TRUE)
                /\ confirm = Bool(TRUE) =>
                      /\ e.executed
                      /\ e.after.present = createEmptyFloorplan(e.after.present.id)
                      /\ Len(e.before.past) < MAX_HISTORY =>
                            Len(e.after.past) = Len(e.before.past) + 1
                      /\ undo(e.after).present = e.before.present

\* C19: an addFurniture invocation whose type is no key of
\* FURNITURE_DIMENSIONS is reported unexecuted and leaves the store as it
\* was; one whose type is a key is executed and the item it creates has the
\* width and height of the table's entry.
C19_UnknownFurnitureRejected ==
    \A i \in 1..Len(ran) :
        ran[i].tool = "addFurniture" =>
            LET e == ran[i]
                type == Get(e.args, "type")
                isKey == /\ "str" \in DOMAIN type
                         /\ type.str \in DOMAIN FURNITURE_DIMENSIONS
            IN  /\ ~isKey => (~e.executed /\ e.after = e.before)
                /\ isKey =>
                      /\ e.executed
                      /\ \E f \in Range(e.after.present.furniture) :
                            /\ f.id = e.nextId
                            /\ f.type = type.str
                            /\ f.width = FURNITURE_DIMENSIONS[type.str].width
                            /\ f.height = FURNITURE_DIMENSIONS[type.str].height

\* C20: an invocation whose name executeToolCall has no case for is
\* reported unexecuted and leaves the store as it was; the invocations of
\* the same turn with known names are executed, and reported, as they are
\* without it; and every invocation the response holds so far has been gone
\* through (it is in assistantMessage.toolCalls).
C20_UnknownToolRejected ==
    /\ \A i \in 1..Len(ran) :
          ran[i].tool \notin KnownTools =>
              ~ran[i].executed /\ ran[i].after = ran[i].before
    /\ ran # <<>> =>
          LET c0 == [store |-> ran[1].before, nextId |-> ran[1].nextId,
                     op |-> op, prev |-> prev]
              IsKnown(e) == e.tool \in KnownTools
              known == SelectSeq(ran, IsKnown)
          IN  ExecuteAll(c0, known, <<>>).ran = known
    /\ \A k \in 1..Len(fullContent) :
          \E i \in 1..Len(toolCalls) : SameCall(toolCalls[i], fullContent[k])

C20_Witness ==
    \E i \in 1..Len(ran) : \E j \in (i + 1)..Len(ran) :
        /\ ran[i].tool \notin KnownTools
        /\ ran[j].executed
        /\ ran[j].after # ran[j].before
        /\ Len(toolCalls) > Len(ran)

\* The same invocation: the same name and the same set of arguments.
SameInvocation(a, b) == a.tool = b.tool /\ Range(a.args) = Range(b.args)

\* C21: in a session, however the response is split into chunks, no two
\* entries of assistantMessage.toolCalls are the same invocation (each is
\* gone through, and so executed, at most once), and as long as the store is
\* called by the session only the store is the one that parsing the text
\* received so far once, and executing what it holds, leaves.
C21_DedupAcrossChunks ==
    /\ \A i \in 1..Len(toolCalls) : \A j \in (i + 1)..Len(toolCalls) :
          ~SameInvocation(toolCalls[i], toolCalls[j])
    /\ ~session.edited =>
          LET c0 == [store |-> session.store, nextId |-> session.nextId,
                     op |-> op, prev |-> prev]
          IN  ExecuteAll(c0, parseToolCalls(fullContent), <<>>).c.store = Store

\* C22: an invocation with a known name whose args do not have the shape
\* the tool declares (a required argument missing or of another type, a
\* position outside [0,1]) is reported unexecuted and leaves the store as
\* it was.
C22_MalformedArgsRejected ==
    \A i \in 1..Len(ran) :
        (ran[i].tool \in KnownTools /\ ~WellShaped(ran[i].tool, ran[i].args)) =>
            ~ran[i].executed /\ ran[i].after = ran[i].before

\* C23: an invocation reported executed, on a past below the cap, adds one
\* entry to past, and one undo after it brings back the document it was
\* executed on.
C23_OneSnapshotPerInvocation ==
    \A i \in 1..Len(ran) :
        (ran[i].executed /\ Len(ran[i].before.past) < MAX_HISTORY) =>
            /\ Len(ran[i].after.past) = Len(ran[i].before.past) + 1
            /\ undo(ran[i].after).present = ran[i].before.present

\* The square of the pixel distance between the start the release found in
\* drawStartRef and the snapped release point.
ReleaseDistance2 ==
    LET dx == ev.snapped.x - ev.start[1].x
        dy == ev.snapped.y - ev.start[1].y
    IN  dx * dx + dy * dy

\* The last event was a release handled while drawing with the wall tool.
ReleaseWhileDrawing ==
    ev.kind = "up" /\ ev.drawing /\ ev.tool = "wall" /\ ev.start # <<>>

\* C24: a release while drawing with the wall tool calls no command and
\* leaves the store as it was when the pixel distance between the captured
\* start and the snapped release point is below 10, and calls addWall
\* exactly once, with both points in inches, when it is 10 or more.
C24_MinimumLength ==
    ReleaseWhileDrawing =>
        IF ReleaseDistance2 < minLength * minLength
        THEN ev.calls = <<>> /\ Store = ev.before
        ELSE /\ Len(ev.calls) = 1
             /\ Store = addWall(ev.before, nextId - 1,
                                Point(ev.start[1].x \div scale, ev.start[1].y \div scale),
                                Point(ev.snapped.x \div scale, ev.snapped.y \div scale),
                                wallThickness)

\* C25: an event other than a release (a press, a move, a click on the
\* toolbar), under any tool and snap setting, calls no command and leaves
\* past, present and future as they were.
C25_PressAndMoveLeaveStore ==
    ev.kind \in {"down", "move", "tool", "snap"} =>
        ev.calls = <<>> /\ Store = ev.before

\* A press under the wall tool began a gesture and a move dragged its
\* preview line away from the start, after a wall was drawn before.
C25_Witness ==
    /\ ev.kind = "move" /\ ev.drawing /\ ev.tool = "wall"
    /\ \E i \in 1..Len(previews) :
          previews[i].x2 # previews[i].x1 \/ previews[i].y2 # previews[i].y1
    /\ Len(present.walls) = 1
    /\ Store = ev.before

\* C26: addWall is never called for the start point of a gesture that was
\* cancelled, by a change of tool between press and release or by a
\* release that failed the minimum-length check, whatever events follow;
\* the store is as the cancelled gesture found it.
C26_CancelledNeverCommits ==
    ev.calls # <<>> => ev.gesture \notin gesture.cancelled

\* C27: with snap-to-grid enabled, snapToGridPoint applied to its own
\* result returns that result, and a point whose coordinates are multiples
\* of the snap size (60 px) is returned unchanged.
C27_SnapIdempotent ==
    snapToGrid =>
        /\ ev.kind = "again" => ev.snapped = ev.point
        /\ (ev.kind = "snap" /\ ev.point.x % snapSize = 0 /\ ev.point.y % snapSize = 0) =>
               ev.snapped = ev.point

\* The function was applied to a point it had returned, off the origin on
\* both axes.
C27_Witness ==
    /\ snapToGrid /\ ev.kind = "again"
    /\ ev.point = Point(snapSize, 0 - snapSize)
    /\ ev.snapped = ev.point

Abs(n) == IF n < 0 THEN 0 - n ELSE n

\* The multiples of the snap size around the raw coordinates.
SnapMultiples ==
    {k * snapSize : k \in (0 - (MaxCoord \div snapSize) - 2)..((MaxCoord \div snapSize) + 2)}

\* C28: with snap-to-grid enabled snapToGridPoint returns, for each axis,
\* the multiple of the snap size (60 px) nearest to the raw coordinate, the
\* result for x being the same whatever y is and the result for y the same
\* whatever x is; with snap-to-grid disabled it returns the raw coordinates.
C28_SnapNearestPerAxis ==
    ev.kind = "snap" =>
        IF snapToGrid
        THEN /\ ev.snapped.x \in SnapMultiples
             /\ ev.snapped.y \in SnapMultiples
             /\ \A m \in SnapMultiples :
                   /\ Abs(ev.snapped.x - ev.point.x) <= Abs(m - ev.point.x)
                   /\ Abs(ev.snapped.y - ev.point.y) <= Abs(m - ev.point.y)
             /\ \A other \in Coords :
                   /\ snapToGridPoint(snapToGrid, ev.point.x, other).x = ev.snapped.x
                   /\ snapToGridPoint(snapToGrid, other, ev.point.y).y = ev.snapped.y
        ELSE ev.snapped = ev.point

\* A raw point off the grid was snapped: x went up to 60, y down to -60.
C28_Witness ==
    /\ snapToGrid /\ ev.kind = "snap"
    /\ ev.point = Point(snapSize - 29, 29 - snapSize)
    /\ ev.snapped = Point(snapSize, 0 - snapSize)

\* The tools the claim calls drawing tools.
DrawingTools == {"wall", "door", "window", "furniture"}

\* C29: the canvas' default cursor, hover cursor and marquee selection are
\* a function of the active tool alone (they are what the effect gives for
\* that tool on the canvas as mounted, whichever tools were active before);
\* select has selection enabled and the drawing tools wall, door, window and
\* furniture have it disabled.
C29_ModeFollowsTool ==
    /\ cursor = CursorEffect(MountedCursor, activeTool)
    /\ activeTool = "select" => cursor.selection
    /\ activeTool \in DrawingTools => ~cursor.selection

AddCommands == {"addWall", "addDoor", "addWindow", "addRoom", "addFurniture"}

\* The ids of the elements of every document a store holds.
StoreIds(s) ==
    AllIds(s.present)
        \cup UNION {AllIds(s.past[i]) : i \in 1..Len(s.past)}
        \cup UNION {AllIds(s.future[i]) : i \in 1..Len(s.future)}

\* The number of elements of a document.
Size(doc) ==
    Len(doc.walls) + Len(doc.doors) + Len(doc.windows) + Len(doc.rooms)
        + Len(doc.furniture)

C32_RoomsAreSoftReferences ==
    /\ op.name = "removeWall" =>
          /\ present.rooms = prev.present.rooms
          /\ present.furniture = prev.present.furniture
    /\ op.name = "removeSelected" =>
          LET Kept(r) == r.id \notin op.ids
          IN  present.rooms = SelectSeq(prev.present.rooms, Kept)

\* removeWall removed a wall that a room names; the room still names it.
C32_Witness ==
    /\ op.name = "removeWall"
    /\ HasId(prev.present.walls, op.id)
    /\ ~HasId(present.walls, op.id)
    /\ \E r \in Range(present.rooms) : op.id \in Range(r.wallIds)
    /\ Len(present.furniture) > 0

\* C33: the canvas starts drawing only on a press while the wall tool is
\* active, and after every release, whatever presses, moves and changes of
\* tool came before, it is idle (isDrawing false, drawStartRef null) and no
\* preview line is left on the canvas.
C33_ReleaseEndsDrawing ==
    /\ (isDrawing /\ ~ev.drawing) => (ev.kind = "down" /\ ev.tool = "wall")
    /\ ev.kind = "up" =>
          ~isDrawing /\ drawStartRef = <<>> /\ previews = <<>>

\* The invocations whose payload is in the text in full: a payload in one
\* piece, or its first part directly followed by the rest of it.
RECURSIVE CompletePayloads(_)
CompletePayloads(text) ==
    IF text = <<>> THEN <<>>
    ELSE IF Head(text).form = "simple"
    THEN <<[tool |-> Head(text).tool, args |-> Head(text).args]>>
             \o CompletePayloads(Tail(text))
    ELSE IF Head(text).form = "head" /\ Len(text) > 1 /\ text[2].form = "tail"
    THEN <<[tool |-> Head(text).tool, args |-> Head(text).args \o text[2].args]>>
             \o CompletePayloads(Tail(Tail(text)))
    ELSE CompletePayloads(Tail(text))

\* C34: whatever the chunks, the invocations the loop has gone through are
\* those of payloads that arrived in full (none for the payload the text
\* read so far ends inside), and every payload that has arrived in full
\* has been gone through exactly once, by the end of the turn that read
\* its last part.
C34_ActsOnCompletePayloads ==
    LET complete == CompletePayloads(fullContent)
    IN  /\ \A i \in 1..Len(toolCalls) :
              \E j \in 1..Len(complete) : SameCall(toolCalls[i], complete[j])
        /\ \A j \in 1..Len(complete) :
              Cardinality({i \in 1..Len(toolCalls) :
                              SameCall(toolCalls[i], complete[j])}) = 1

\* The document of a store holds every element of document doc.
Keeps(s, doc) == Elements(doc) \subseteq Elements(s.present)

\* C35: pointer events and the turns of the loop that reads a response take
\* effect one after the other, each on the store the one before it left.
\* The store an executed removeWall leaves holds no door and no window of
\* the wall it removed; each invocation of a turn is executed on the store
\* the invocation before it left, the first one on the store as it was when
\* the chunk arrived, and the store after the turn is the one the last
\* invocation left; an executed add* invocation keeps every element and
\* adds the one with the id generateId had next; a release that commits a
\* wall keeps every element of the document it happened on and adds the
\* wall from the start point to the pointer.
C35_SerializedAtCommands ==
    /\ \A i \in 1..Len(ran) :
          LET e == ran[i]
          IN  /\ (e.tool = "removeWall" /\ e.executed) =>
                    LET id == Get(e.args, "wallId").id
                    IN  /\ id \notin Ids(e.after.present.walls)
                        /\ \A j \in 1..Len(e.after.present.doors) :
                              e.after.present.doors[j].wallId # id
                        /\ \A j \in 1..Len(e.after.present.windows) :
                              e.after.present.windows[j].wallId # id
              /\ (e.tool \in AddCommands /\ e.executed) =>
                    /\ Keeps(e.after, e.before.present)
                    /\ e.nextId \in AllIds(e.after.present)
              /\ i > 1 => e.before = ran[i - 1].after
    /\ ev.kind = "chunk" =>
          IF ran = <<>> THEN Store = ev.before
          ELSE ran[1].before = ev.before /\ Store = ran[Len(ran)].after
    /\ ev.kind \in {"down", "move", "up"} =>
          IF ev.calls = <<>> THEN Store = ev.before
          ELSE /\ Keeps(Store, ev.before.present)
               /\ \A k \in 1..Len(ev.calls) :
                     \E i \in 1..Len(present.walls) :
                         /\ present.walls[i].start = ev.calls[k].start
                         /\ present.walls[i].end = ev.calls[k].end
                         /\ present.walls[i].id \notin AllIds(ev.before.present)

\* A release commits a wall on a document an executed invocation of the
\* response had changed after the session began, and the document holds
\* what both added.
C35_Witness ==
    /\ ev.kind = "up"
    /\ ev.calls # <<>>
    /\ ev.drawing
    /\ \E i \in 1..Len(toolCalls) : toolCalls[i].executed
    /\ ev.before.present # session.store.present
    /\ Size(present) = Size(session.store.present) + 2

\* C36: past and future together never hold more than MAX_HISTORY
\* documents, so a redo, which appends to past without truncating it, never
\* leaves more than MAX_HISTORY documents in past.
C36_HistoryTotalCap ==
    /\ Len(past) + Len(future) <= MAX_HISTORY
    /\ op.name = "redo" => Len(past) <= MAX_HISTORY

\* A redo has filled past up to the cap.
C36_Witness ==
    /\ op.name = "redo"
    /\ Len(past) = MAX_HISTORY
    /\ Len(prev.past) = MAX_HISTORY - 1
    /\ Len(prev.future) = Len(future) + 1

\* C37: an invocation executeToolCall returns false for leaves past,
\* present and future as they were: every invocation of the turn read last
\* that was not executed left the store it was called on, and so would
\* every invocation of a tool whose case holds a `return false`, or of a
\* tool with no case, if it were called on the store as it is now.
C37_RejectionLeavesStore ==
    /\ \A i \in 1..Len(ran) :
          ~ran[i].executed => ran[i].after = ran[i].before
    /\ \A tc \in {t \in Invocations(present) :
                     t.tool \in {"addFurniture", "clearAll"} \/ t.tool \notin KnownTools} :
          \A r \in {executeToolCall(Context, tc.tool, tc.args)} :
              ~r.executed =>
                 /\ r.c.store = Store
                 /\ r.c.nextId = nextId

\* An invocation of a known tool was rejected on a document with a wall
\* and a history with an entry in past, and left both as they were.
C37_Witness ==
    \E i \in 1..Len(ran) :
        /\ ~ran[i].executed
        /\ ran[i].tool \in {"clearAll", "addFurniture"}
        /\ ran[i].before.past # <<>>
        /\ ran[i].before.present.walls # <<>>
        /\ ran[i].after = ran[i].before

\* C38: the canvas holds at most one wall preview, and none while
\* isDrawing is false.
C38_OnePreview ==
    /\ Len(previews) <= 1
    /\ ~isDrawing => previews = <<>>

\* C39: an undo between two turns of the loop takes back the invocation
\* executed last, and reading on does not bring it back.  No invocation
\* executed on a turn is one the message's toolCalls held before it; and
\* while the store call made last is the first undo after a turn that
\* pushed one entry on the history of the session, present is the document
\* the session began on.
C39_UndoneStaysUndone ==
    /\ \A i \in 1..Len(ran) :
          LET before == Len(toolCalls) - Len(ran)
          IN  \A j \in 1..before : ~SameCall(toolCalls[j], ran[i])
    /\ (/\ \E i \in 1..Len(toolCalls) : toolCalls[i].executed
        /\ op.name = "undo"
        /\ prev.future = <<>>
        /\ Len(session.store.past) < MAX_HISTORY
        /\ Len(prev.past) = Len(session.store.past) + 1) =>
          present = session.store.present

\* C40: a submission is accepted only while isLoading is false, so no two
\* calls of handleSubmit are under way at a time and isLoading is true
\* exactly while one is; and whenever isLoading is true it is false again
\* later, whether fetch failed, the response was not ok or had no body,
\* the stream ended or reading it was rejected.
C40_OneSessionThatEnds ==
    /\ [](/\ Len(chat.inFlight) <= 1
          /\ chat.isLoading <=> chat.inFlight # <<>>)
    /\ (chat.isLoading ~> ~chat.isLoading)

\* The second submission was accepted after the first one's stream had
\* been rejected, and ended after an invocation of its response had been
\* executed.
C40_Witness ==
    /\ chat.started = 2
    /\ ~chat.isLoading
    /\ chat.inFlight = <<>>
    /\ Len(chat.messages) = 4
    /\ \E i \in 1..Len(toolCalls) : toolCalls[i].executed

====
